---- MODULE Spec2Model ----
(***************************************************************************)
(* Budget allocation and growth projection engine of sturgeon-ai.          *)
(*                                                                         *)
(* The repository holds several variants of the same engine.  Each one is  *)
(* modelled under a prefix naming its file:                                *)
(*   Pkg_      src/roi_calculator/roi_calc.py   (module-level function)    *)
(*   RoiCalc_  src/backend/roi_calc.py          (weight-table allocator)   *)
(*   Backend_  src/backend/roi_calculator.py    (ranked 50/30/20)          *)
(*   Root_     src/roi_calculator.py            (score-proportional)       *)
(*                                                                         *)
(* Python floats are modelled as exact rationals [n, d] in lowest terms    *)
(* with d > 0; money is in currency units, weights are fractions.          *)
(***************************************************************************)
EXTENDS Integers, Sequences, FiniteSets, TLC

\* ------------------------------------------------------------------ bounds
MaxBudgetK == 40
MaxChannels == 3
MaxDuration == 3
MaxMonths == 3
\* readings of the wall clock are 0..MaxClock
MaxClock == 1
\* set_allocation_strategy calls made while calls of one calculator overlap
MaxSets == 2
\* analyses one agent calculator has recorded
MaxCalculations == 2

\* -------------------------------------------------------------- rationals
Abs(x) == IF x < 0 THEN 0 - x ELSE x

RECURSIVE GCD(_, _)
GCD(a, b) == IF b = 0 THEN a ELSE GCD(b, a % b)

Rat(n, d) ==
    LET g == GCD(Abs(n), Abs(d))
        s == IF d < 0 THEN 0 - 1 ELSE 1
    IN  [n |-> s * (n \div g), d |-> s * (d \div g)]

RInt(k) == [n |-> k, d |-> 1]
Zero == RInt(0)

RAdd(a, b) ==
    LET g == GCD(a.d, b.d)
    IN  Rat(a.n * (b.d \div g) + b.n * (a.d \div g), a.d * (b.d \div g))

RNeg(a) == [n |-> 0 - a.n, d |-> a.d]
RSub(a, b) == RAdd(a, RNeg(b))

RMul(a, b) ==
    LET g1 == GCD(Abs(a.n), b.d)
        g2 == GCD(Abs(b.n), a.d)
    IN  IF a.n = 0 \/ b.n = 0 THEN Zero
        ELSE [n |-> (a.n \div g1) * (b.n \div g2),
              d |-> (a.d \div g2) * (b.d \div g1)]

\* a / b for b # 0
RDiv(a, b) == RMul(a, Rat(b.d, b.n))

RFloor(a) == a.n \div a.d

\* sign of a - b, by comparing integer parts and then the reciprocals of the
\* fractional parts (no cross product, so no overflow)
RECURSIVE RCmp(_, _)
RCmp(a, b) ==
    LET qa == RFloor(a)
        qb == RFloor(b)
        ra == a.n - qa * a.d
        rb == b.n - qb * b.d
    IN  IF qa # qb THEN (IF qa < qb THEN 0 - 1 ELSE 1)
        ELSE IF ra = 0 /\ rb = 0 THEN 0
        ELSE IF ra = 0 THEN 0 - 1
        ELSE IF rb = 0 THEN 1
        ELSE RCmp([n |-> b.d, d |-> rb], [n |-> a.d, d |-> ra])

RLe(a, b) == RCmp(a, b) <= 0
RLt(a, b) == RCmp(a, b) < 0
RAbs(a) == [n |-> Abs(a.n), d |-> a.d]
RMin(a, b) == IF RLe(a, b) THEN a ELSE b

\* |a - b| < tol  (pytest-style absolute tolerance)
RNear(a, b, tol) == RLt(RAbs(RSub(a, b)), tol)

\* Python int(x): truncation toward zero
PyInt(a) == IF a.n >= 0 THEN a.n \div a.d ELSE 0 - ((0 - a.n) \div a.d)

\* Python round(x, 1): nearest tenth, ties to even
PyRound1(a) ==
    LET t == RMul(a, RInt(10))
        f == RFloor(t)
        twice == RSub(RMul(t, RInt(2)), RInt(2 * f))   \* 2 * frac(t), in [0, 2)
        up == \/ RLt(RInt(1), twice)
              \/ (twice = RInt(1) /\ f % 2 = 1)
    IN  Rat(IF up THEN f + 1 ELSE f, 10)

\* Python round(x, 2): nearest hundredth, ties to even
PyRound2(a) ==
    LET t == RMul(a, RInt(100))
        f == RFloor(t)
        twice == RSub(RMul(t, RInt(2)), RInt(2 * f))   \* 2 * frac(t), in [0, 2)
        up == \/ RLt(RInt(1), twice)
              \/ (twice = RInt(1) /\ f % 2 = 1)
    IN  Rat(IF up THEN f + 1 ELSE f, 100)

RECURSIVE RSumSeq(_)
RSumSeq(s) == IF s = <<>> THEN Zero ELSE RAdd(Head(s), RSumSeq(Tail(s)))

RECURSIVE RSumFun(_, _)
RSumFun(f, S) ==
    IF S = {} THEN Zero
    ELSE LET x == CHOOSE y \in S : TRUE
         IN  RAdd(f[x], RSumFun(f, S \ {x}))

\* -------------------------------------------------------------- utilities
Range(s) == {s[i] : i \in 1..Len(s)}

SeqsUpTo(S, k) == UNION {[1..m -> S] : m \in 0..k}

EmptyDict == [c \in {} |-> Zero]

\* keys of a dict built by inserting the elements of s in order
RECURSIVE DictKeys(_)
DictKeys(s) ==
    IF s = <<>> THEN <<>>
    ELSE LET r == DictKeys(SubSeq(s, 1, Len(s) - 1))
             x == s[Len(s)]
         IN  IF x \in Range(r) THEN r ELSE Append(r, x)

RemoveAt(s, i) == SubSeq(s, 1, i - 1) \o SubSeq(s, i + 1, Len(s))

\* sorted(s, key=..., reverse=True): descending and stable
RECURSIVE SortedDesc(_, _)
SortedDesc(s, key) ==
    IF s = <<>> THEN <<>>
    ELSE LET i == CHOOSE i \in 1..Len(s) :
                    /\ \A j \in 1..Len(s) : RLe(key[s[j]], key[s[i]])
                    /\ \A j \in 1..(i - 1) : RLt(key[s[j]], key[s[i]])
         IN  <<s[i]>> \o SortedDesc(RemoveAt(s, i), key)

Min(a, b) == IF a <= b THEN a ELSE b

\* Python dict lookup result for "key in d"
HasKey(d, k) == k \in DOMAIN d

\* ------------------------------------------------------------ input space
Channels ==
    {"linkedin_ads", "content_marketing", "email_marketing",
     "google_ads", "seo", "unknown_channel"}

\* budgets: negative, zero and positive multiples of 250 up to 250 * MaxBudgetK,
\* and two budgets too small to buy a whole customer on the paid channels
Budgets == {250 * k : k \in (0 - 2)..MaxBudgetK} \cup {30, 100}

\* total budgets offered to the allocators
TotalBudgets == {0 - 1000, 0, 5000, 10000}

Durations == 0..MaxDuration

\* candidate lists: every list of up to MaxChannels ids, and the lists of all
\* the channels a benchmark table knows (four and five candidates)
WideChannelLists ==
    {<<"linkedin_ads", "content_marketing", "email_marketing", "google_ads">>,
     <<"linkedin_ads", "content_marketing", "email_marketing", "google_ads", "seo">>}

ChannelLists == SeqsUpTo(Channels, MaxChannels) \cup WideChannelLists

\* ----------------------------------------------------------------- state
VARIABLES
    allocation_strategy,  \* RoiCalc: self.allocation_strategy of the calculator
    call,                 \* the last call made: variant, operation, arguments
    outcome,              \* "ok", or the exception type the call raised
    error,                \* what the exception message names and lists
    roi,                  \* value returned by calculate_campaign_roi
    plan,                 \* value returned by optimize_budget_allocation
    projection,           \* value returned by project_growth_trajectory
    previous,             \* what the same call returned when made just before
    heap,                 \* overlapping calls: the dict objects, by identity
    self_strategy,        \* overlapping calls: the object self.allocation_strategy is
    optimizer,            \* overlapping calls: frame of optimize_budget_allocation
    setter,               \* overlapping calls: frame of set_allocation_strategy
    calculations,         \* agent calculator: self.calculations
    agent_call,           \* agent calculator: the method called last
    returned,             \* agent calculator: what that call returned
    other_strategy,       \* a second ROICalculator: the object its strategy is
    passed,               \* the dict object the caller passed to set_allocation_strategy
    installed,            \* the entries that dict had when the strategy was set
    module_plan           \* the last call of the module-level optimize_budget_allocation

\* the state of the calls made one after the other
seq_vars == <<allocation_strategy, call, outcome, error, roi, plan, projection, previous>>

\* the state of the calls of one calculator that overlap in time
conc_vars == <<heap, self_strategy, optimizer, setter>>

\* the state of the agent calculator's record of analyses
agent_vars == <<calculations, agent_call, returned>>

\* the state of the callers and the second instance of the weight-table calculator
inst_vars == <<other_strategy, passed, installed, module_plan>>

vars == <<seq_vars, conc_vars, agent_vars, inst_vars>>

NoValue == <<>>
NoError == [type |-> "none", msg |-> "", named |-> {}, listed |-> {}]

Return(v) == [outcome |-> "ok", error |-> NoError, value |-> v]

\* an exception: its type, the fixed text of its message, the channel ids the
\* message names and the channel ids it lists as valid
Raise(type, msg, named, listed) ==
    [outcome |-> type,
     error |-> [type |-> type, msg |-> msg, named |-> named, listed |-> listed],
     value |-> NoValue]

NoPrevious == <<>>

\* an optional argument left out of the call
None == <<>>

NoCall ==
    [impl |-> "none", op |-> "none", channel |-> "", budget |-> 0,
     duration_months |-> 0, channels |-> <<>>, custom_weights |-> EmptyDict,
     strategy |-> EmptyDict, constraints |-> EmptyDict, channel_mix |-> EmptyDict,
     historical_performance |-> None, objectives |-> None]

\* Python's answer to a keyword argument the function's signature does not have
UnexpectedKeyword(name) ==
    Raise("TypeError", "got an unexpected keyword argument", {name}, {})

\* ------------------------------------- src/roi_calculator/roi_calc.py (Pkg)
CHANNEL_METRICS ==
    [c \in {"linkedin_ads"} |->
        [conversion_rate |-> Rat(36, 10000),
         average_customer_value |-> RInt(2388)]]

\* mutant: revenue taken from the customers before truncation
Pkg_calculate_campaign_roi_unfloored(channel, budget) ==
    IF ~HasKey(CHANNEL_METRICS, channel)
    THEN Raise("ValueError", "Unsupported channel", {channel}, {})
    ELSE
      LET metrics == CHANNEL_METRICS[channel]
          conversion_rate == metrics.conversion_rate
          customer_value == metrics.average_customer_value
          expected_customers == PyInt(RMul(budget, conversion_rate))
          expected_revenue == RMul(RMul(budget, conversion_rate), customer_value)
      IN  IF budget = Zero
          THEN Raise("ZeroDivisionError", "division by zero", {}, {})
          ELSE
            LET roi_percentage ==
                    RMul(RDiv(RSub(expected_revenue, budget), budget), RInt(100))
            IN  Return([customers |-> expected_customers,
                        revenue |-> expected_revenue,
                        roi |-> PyRound1(roi_percentage)])

\* mutant: the budget is subtracted from the revenue (profit reported)
Pkg_calculate_campaign_roi_profit(channel, budget) ==
    IF ~HasKey(CHANNEL_METRICS, channel)
    THEN Raise("ValueError", "Unsupported channel", {channel}, {})
    ELSE
      LET metrics == CHANNEL_METRICS[channel]
          conversion_rate == metrics.conversion_rate
          customer_value == metrics.average_customer_value
          expected_customers == PyInt(RMul(budget, conversion_rate))
          expected_revenue == RSub(RMul(RInt(expected_customers), customer_value), budget)
      IN  IF budget = Zero
          THEN Raise("ZeroDivisionError", "division by zero", {}, {})
          ELSE
            LET roi_percentage ==
                    RMul(RDiv(RSub(expected_revenue, budget), budget), RInt(100))
            IN  Return([customers |-> expected_customers,
                        revenue |-> expected_revenue,
                        roi |-> PyRound1(roi_percentage)])

Pkg_calculate_campaign_roi(channel, budget) ==
    IF ~HasKey(CHANNEL_METRICS, channel)
    THEN Raise("ValueError", "Unsupported channel", {channel}, {})
    ELSE
      LET metrics == CHANNEL_METRICS[channel]
          conversion_rate == metrics.conversion_rate
          customer_value == metrics.average_customer_value
          expected_customers == PyInt(RMul(budget, conversion_rate))
          expected_revenue == RMul(RInt(expected_customers), customer_value)
      IN  IF budget = Zero
          THEN Raise("ZeroDivisionError", "division by zero", {}, {})
          ELSE
            LET roi_percentage ==
                    RMul(RDiv(RSub(expected_revenue, budget), budget), RInt(100))
            IN  Return([customers |-> expected_customers,
                        revenue |-> expected_revenue,
                        roi |-> PyRound1(roi_percentage)])

\* --------------------------------- src/backend/roi_calculator.py (Backend)
VIRAL_COEFFICIENT == Rat(5, 100)
MONTHLY_SUBSCRIPTION_VALUE == 200
ALLOCATION_STRATEGY == <<Rat(50, 100), Rat(30, 100), Rat(20, 100)>>
CUSTOMER_RETENTION_YEARS == 2
ROI_TEST_BUDGET == 1000
ROI_TEST_DURATION == 3

CHANNEL_BENCHMARKS ==
    [c \in {"linkedin_ads", "content_marketing", "email_marketing", "google_ads"} |->
       CASE c = "linkedin_ads" ->
              [cpm |-> RInt(75), ctr |-> Rat(25, 1000),
               conversion_rate |-> Rat(8, 100),
               avg_customer_value |-> RInt(2400)]
         [] c = "content_marketing" ->
              [articles_per_month |-> RInt(4), traffic_per_article |-> RInt(500),
               conversion_rate |-> Rat(3, 100),
               avg_customer_value |-> RInt(2400)]
         [] c = "email_marketing" ->
              [sends_per_month |-> RInt(10000), open_rate |-> Rat(25, 100),
               click_rate |-> Rat(12, 100), conversion_rate |-> Rat(6, 100),
               avg_customer_value |-> RInt(2400)]
         [] c = "google_ads" ->
              [cpc |-> Rat(85, 10), conversion_rate |-> Rat(5, 100),
               avg_customer_value |-> RInt(2400)]]

\* the funnel of lines 71-90: customers as an unrounded float
Backend_customers(channel, budget, duration_months) ==
    LET benchmarks == CHANNEL_BENCHMARKS[channel]
        d == RInt(duration_months)
    IN  CASE channel = "linkedin_ads" ->
               LET impressions == RMul(RDiv(budget, benchmarks.cpm), RInt(1000))
                   clicks == RMul(impressions, benchmarks.ctr)
               IN  RMul(clicks, benchmarks.conversion_rate)
          [] channel = "content_marketing" ->
               LET total_articles == RMul(benchmarks.articles_per_month, d)
                   total_traffic == RMul(total_articles, benchmarks.traffic_per_article)
               IN  RMul(total_traffic, benchmarks.conversion_rate)
          [] channel = "email_marketing" ->
               LET total_sends == RMul(benchmarks.sends_per_month, d)
                   opens == RMul(total_sends, benchmarks.open_rate)
                   clicks == RMul(opens, benchmarks.click_rate)
               IN  RMul(clicks, benchmarks.conversion_rate)
          [] channel = "google_ads" ->
               LET clicks == RDiv(budget, benchmarks.cpc)
               IN  RMul(clicks, benchmarks.conversion_rate)

Backend_recommendation(roi_percentage) ==
    IF RLt(RInt(200), roi_percentage) THEN "excellent"
    ELSE IF RLt(RInt(100), roi_percentage) THEN "strong"
    ELSE IF RLt(Zero, roi_percentage) THEN "modest"
    ELSE "negative"

\* lines 92-138: the metrics derived from the customers of the funnel
Backend_metrics(channel, budget, duration_months, benchmarks, customers, total_revenue, cost_per_customer) ==
    LET profit == RSub(total_revenue, budget)
        roi_percentage ==
            IF RLt(Zero, budget)
            THEN RMul(RDiv(profit, budget), RInt(100)) ELSE Zero
        customer_lifetime_value ==
            RMul(benchmarks.avg_customer_value, RInt(CUSTOMER_RETENTION_YEARS))
    IN  [channel |-> channel,
         budget |-> budget,
         duration_months |-> duration_months,
         monthly_spend |-> RDiv(budget, RInt(duration_months)),
         customers_acquired |-> PyInt(customers),
         total_revenue |-> total_revenue,
         profit |-> profit,
         cost_per_customer |-> cost_per_customer,
         ltv_cac_ratio |->
             IF RLt(Zero, cost_per_customer)
             THEN RDiv(customer_lifetime_value, cost_per_customer) ELSE Zero,
         payback_months |->
             IF RLt(Zero, benchmarks.avg_customer_value)
             THEN RDiv(cost_per_customer,
                       RDiv(benchmarks.avg_customer_value, RInt(12)))
             ELSE Zero,
         roi_percentage |-> roi_percentage,
         roi_multiple |->
             IF RLt(Zero, budget) THEN RDiv(total_revenue, budget) ELSE Zero,
         recommendation |-> Backend_recommendation(roi_percentage)]

\* lines 93 and 99: revenue and cost per customer of the customers acquired
Backend_performance(channel, budget, duration_months, benchmarks, customers) ==
    Backend_metrics(channel, budget, duration_months, benchmarks, customers,
                    RMul(customers, benchmarks.avg_customer_value),
                    IF RLt(Zero, customers) THEN RDiv(budget, customers) ELSE Zero)

Backend_calculate_campaign_roi(channel, budget, duration_months) ==
    IF ~HasKey(CHANNEL_BENCHMARKS, channel)
    THEN Raise("ValueError", "Unknown channel", {channel}, DOMAIN CHANNEL_BENCHMARKS)
    ELSE IF duration_months = 0
    THEN Raise("ZeroDivisionError", "division by zero", {}, {})      \* monthly_spend = budget / 0
    ELSE Return(Backend_performance(
                    channel, budget, duration_months, CHANNEL_BENCHMARKS[channel],
                    Backend_customers(channel, budget, duration_months)))

\* lines 151-159: ROI of each known candidate at the test budget, in dict order
Backend_channel_rois(channels) ==
    LET known == SelectSeq(DictKeys(channels),
                           LAMBDA c : HasKey(CHANNEL_BENCHMARKS, c))
    IN  [keys |-> known,
         roi |-> [c \in Range(known) |->
                    Backend_calculate_campaign_roi(
                        c, RInt(ROI_TEST_BUDGET), ROI_TEST_DURATION).value.roi_percentage]]

\* lines 161-172: the shares handed to the ranked channels
Backend_allocation_percentages(n) ==
    LET allocation_percentages == SubSeq(ALLOCATION_STRATEGY, 1, n)
        total_allocated == RSumSeq(allocation_percentages)
    IN  IF RLt(total_allocated, RInt(1)) /\ Len(allocation_percentages) > 0
        THEN LET scaling_factor == RDiv(RInt(1), total_allocated)
             IN  [i \in 1..n |-> RMul(allocation_percentages[i], scaling_factor)]
        ELSE allocation_percentages

\* lines 162-163: at most as many channels as the strategy has shares
Backend_truncate(ranked) ==
    IF Len(ranked) > Len(ALLOCATION_STRATEGY)
    THEN SubSeq(ranked, 1, Len(ALLOCATION_STRATEGY)) ELSE ranked

\* lines 199-224: the blended metrics and the returned plan
Backend_totals(total_budget, sorted_channels, optimized_allocation, total_customers, total_revenue) ==
    Return([total_budget |-> total_budget,
            optimized_allocation |-> optimized_allocation,
            total_customers |-> PyInt(total_customers),
            total_revenue |-> total_revenue,
            blended_roi |->
                IF RLt(Zero, total_budget)
                THEN RMul(RDiv(RSub(total_revenue, total_budget), total_budget),
                          RInt(100))
                ELSE Zero,
            ranking |-> sorted_channels,
            execution_priority |-> Min(Len(sorted_channels), 3) + 2])

\* mutant: the candidates are left in the order of the channels argument
Backend_sorted_channels_unsorted(channel_rois) ==
    Backend_truncate(channel_rois.keys)

\* lines 158-163: the candidates ranked by test ROI, cut to the strategy's length
Backend_sorted_channels(channel_rois) ==
    Backend_truncate(SortedDesc(channel_rois.keys, channel_rois.roi))

\* lines 174-197: the plan entries and the totals over them
Backend_plan(total_budget, sorted_channels, allocation_percentages, results) ==
    Backend_totals(
        total_budget, sorted_channels,
        [c \in Range(sorted_channels) |->
           LET i == CHOOSE j \in 1..Len(sorted_channels) : sorted_channels[j] = c
           IN  [budget |-> RMul(total_budget, allocation_percentages[i]),
                percentage |-> PyInt(RMul(allocation_percentages[i], RInt(100))),
                expected_customers |-> results[i].customers_acquired,
                expected_revenue |-> results[i].total_revenue,
                roi |-> results[i].roi_percentage]],
        RSumSeq([i \in 1..Len(results) |-> RInt(results[i].customers_acquired)]),
        RSumSeq([i \in 1..Len(results) |-> results[i].total_revenue]))

Backend_allocate(total_budget, sorted_channels, allocation_percentages) ==
    Backend_plan(total_budget, sorted_channels, allocation_percentages,
                 [i \in 1..Len(sorted_channels) |->
                    Backend_calculate_campaign_roi(
                        sorted_channels[i],
                        RMul(total_budget, allocation_percentages[i]), 3).value])

Backend_optimize_ranked(total_budget, sorted_channels) ==
    Backend_allocate(total_budget, sorted_channels,
                     Backend_allocation_percentages(Len(sorted_channels)))

Backend_optimize_budget_allocation(total_budget, channels) ==
    Backend_optimize_ranked(total_budget,
                            Backend_sorted_channels(Backend_channel_rois(channels)))

Backend_channel_allocation ==
    [c \in {"linkedin_ads", "content_marketing", "email_marketing"} |->
       CASE c = "linkedin_ads" -> Rat(40, 100)
         [] c = "content_marketing" -> Rat(30, 100)
         [] c = "email_marketing" -> Rat(30, 100)]

\* lines 256-278: customers of one month from the paid channels
Backend_month_organic(monthly_budget) ==
    RSumFun([c \in DOMAIN Backend_channel_allocation |->
               Backend_customers(c, RMul(monthly_budget, Backend_channel_allocation[c]), 1)],
            DOMAIN Backend_channel_allocation)

\* mutant: each month's record is inserted at the front of the list
Backend_month_prepend(prev, monthly_budget, month) ==
    LET viral_customers == RMul(prev.cumulative_customers, VIRAL_COEFFICIENT)
        month_customers == RAdd(Backend_month_organic(monthly_budget), viral_customers)
        cumulative_customers == RAdd(prev.cumulative_customers, month_customers)
        month_revenue == RMul(cumulative_customers, RInt(MONTHLY_SUBSCRIPTION_VALUE))
        cumulative_revenue == RAdd(prev.cumulative_revenue, month_revenue)
        cumulative_investment == RAdd(prev.cumulative_investment, monthly_budget)
    IN  [monthly_breakdown |->
            <<[month |-> month,
              customers |-> PyInt(month_customers),
              cumulative_customers |-> PyInt(cumulative_customers),
              mrr |-> month_revenue,
              cumulative_revenue |-> cumulative_revenue,
              investment |-> monthly_budget,
              cumulative_investment |-> cumulative_investment]>>
            \o prev.monthly_breakdown,
         cumulative_customers |-> cumulative_customers,
         cumulative_revenue |-> cumulative_revenue,
         cumulative_investment |-> cumulative_investment]

\* lines 280-301: the totals of one month and its record, appended to the list
Backend_month_totals(prev, monthly_budget, month, month_customers) ==
    LET cumulative_customers == RAdd(prev.cumulative_customers, month_customers)
        month_revenue == RMul(cumulative_customers, RInt(MONTHLY_SUBSCRIPTION_VALUE))
        cumulative_revenue == RAdd(prev.cumulative_revenue, month_revenue)
        cumulative_investment == RAdd(prev.cumulative_investment, monthly_budget)
    IN  [monthly_breakdown |->
            Append(prev.monthly_breakdown,
                   [month |-> month,
                    customers |-> PyInt(month_customers),
                    cumulative_customers |-> PyInt(cumulative_customers),
                    mrr |-> month_revenue,
                    cumulative_revenue |-> cumulative_revenue,
                    investment |-> monthly_budget,
                    cumulative_investment |-> cumulative_investment]),
         cumulative_customers |-> cumulative_customers,
         cumulative_revenue |-> cumulative_revenue,
         cumulative_investment |-> cumulative_investment]

\* lines 252-301: one iteration of the month loop, from the loop state prev
Backend_month(prev, monthly_budget, month) ==
    Backend_month_totals(
        prev, monthly_budget, month,
        RAdd(Backend_month_organic(monthly_budget),
             RMul(prev.cumulative_customers, VIRAL_COEFFICIENT)))

\* lines 244-301: the loop state after `month` iterations
RECURSIVE Backend_simulate(_, _)
Backend_simulate(monthly_budget, month) ==
    IF month = 0
    THEN [monthly_breakdown |-> <<>>, cumulative_customers |-> Zero,
          cumulative_revenue |-> Zero, cumulative_investment |-> Zero]
    ELSE Backend_month(Backend_simulate(monthly_budget, month - 1),
                       monthly_budget, month)

\* mutant: the last qualifying month instead of the first
FirstMonth_last(breakdown, qualifies) ==
    IF \E i \in 1..Len(breakdown) : qualifies[i]
    THEN breakdown[CHOOSE i \in 1..Len(breakdown) :
                      /\ qualifies[i]
                      /\ \A j \in (i + 1)..Len(breakdown) : ~qualifies[j]].month
    ELSE 0

\* next((m['month'] for m in breakdown if test(m)), 0); qualifies[i] is the
\* test of breakdown[i]
FirstMonth(breakdown, qualifies) ==
    IF \E i \in 1..Len(breakdown) : qualifies[i]
    THEN breakdown[CHOOSE i \in 1..Len(breakdown) :
                      /\ qualifies[i]
                      /\ \A j \in 1..(i - 1) : ~qualifies[j]].month
    ELSE 0

\* lines 303-334: the summary and the milestones over the final loop state
Backend_summary(monthly_budget, duration_months, sim) ==
    LET monthly_breakdown == sim.monthly_breakdown
        total_investment == RMul(monthly_budget, RInt(duration_months))
    IN  IF monthly_breakdown = <<>>
        THEN Raise("IndexError", "list index out of range", {}, {})
        ELSE
          LET final_month_mrr == monthly_breakdown[Len(monthly_breakdown)].mrr
              roi_percentage ==
                  IF RLt(Zero, total_investment)
                  THEN RMul(RDiv(RSub(sim.cumulative_revenue, total_investment),
                                 total_investment), RInt(100))
                  ELSE Zero
          IN  Return(
                [monthly_budget |-> monthly_budget,
                 total_investment |-> total_investment,
                 channel_allocation |-> Backend_channel_allocation,
                 monthly_breakdown |-> monthly_breakdown,
                 total_customers |-> PyInt(sim.cumulative_customers),
                 mrr |-> final_month_mrr,
                 arr |-> RMul(final_month_mrr, RInt(12)),
                 total_revenue |-> sim.cumulative_revenue,
                 roi_percentage |-> roi_percentage,
                 first_10_customers |->
                     FirstMonth(monthly_breakdown,
                       [i \in 1..Len(monthly_breakdown) |->
                          monthly_breakdown[i].cumulative_customers >= 10]),
                 first_50_customers |->
                     FirstMonth(monthly_breakdown,
                       [i \in 1..Len(monthly_breakdown) |->
                          monthly_breakdown[i].cumulative_customers >= 50]),
                 first_100_customers |->
                     FirstMonth(monthly_breakdown,
                       [i \in 1..Len(monthly_breakdown) |->
                          monthly_breakdown[i].cumulative_customers >= 100]),
                 break_even_month |->
                     FirstMonth(monthly_breakdown,
                       [i \in 1..Len(monthly_breakdown) |->
                          RLe(monthly_breakdown[i].cumulative_investment,
                              monthly_breakdown[i].cumulative_revenue)])])

Backend_project_growth_trajectory(monthly_budget, duration_months) ==
    Backend_summary(monthly_budget, duration_months,
                    Backend_simulate(monthly_budget,
                                     IF duration_months > 0 THEN duration_months ELSE 0))

\* ------------------------------------- src/backend/roi_calc.py (RoiCalc)
DEFAULT_ALLOCATIONS ==
    [c \in {"linkedin_ads", "content_marketing", "email_marketing"} |->
       CASE c = "linkedin_ads" -> Rat(60, 100)
         [] c = "content_marketing" -> Rat(30, 100)
         [] c = "email_marketing" -> Rat(10, 100)]

\* mutant: total_weight is the sum of the whole weight table
RoiCalc_first_pass_table(weights, channels) ==
    [allocation |-> [c \in Range(channels) |->
                       IF HasKey(weights, c) THEN weights[c] ELSE Zero],
     total_weight |-> RSumFun(weights, DOMAIN weights)]

\* lines 59-70: first pass over the requested channels
RoiCalc_first_pass(weights, channels) ==
    [allocation |-> [c \in Range(channels) |->
                       IF HasKey(weights, c) THEN weights[c] ELSE Zero],
     total_weight |-> RSumSeq([i \in 1..Len(channels) |->
                       IF HasKey(weights, channels[i]) THEN weights[channels[i]] ELSE Zero])]

RoiCalc_optimize_budget_allocation(strategy, total_budget, channels, custom_weights) ==
    IF RLe(total_budget, Zero)
    THEN Raise("ValueError", "Total budget must be positive", {}, {})
    ELSE IF channels = <<>>
    THEN Raise("ValueError", "At least one channel must be specified", {}, {})
    ELSE
      LET weights == IF custom_weights # EmptyDict THEN custom_weights ELSE strategy
          pass == RoiCalc_first_pass(weights, channels)
          allocation == pass.allocation
          total_weight == pass.total_weight
      IN  IF RLt(Zero, total_weight)
          THEN Return([c \in DOMAIN allocation |->
                         IF RLt(Zero, allocation[c])
                         THEN RMul(RDiv(allocation[c], total_weight), total_budget)
                         ELSE allocation[c]])
          ELSE LET equal_share == RDiv(total_budget, RInt(Len(channels)))
               IN  Return([c \in DOMAIN allocation |-> equal_share])

\* mutant: the strategy is installed whatever its sum
RoiCalc_set_allocation_strategy_unchecked(strategy) ==
    Return(strategy)

RoiCalc_set_allocation_strategy(strategy) ==
    LET total == RSumFun(strategy, DOMAIN strategy)
    IN  IF ~(RLe(Rat(99, 100), total) /\ RLe(total, Rat(101, 100)))
        THEN Raise("ValueError", "Allocation percentages must sum to 1.0", {}, {})
        ELSE Return(strategy)

\* ------------------------------------------- src/roi_calculator.py (Root)
channel_metrics ==
    [c \in {"linkedin_ads", "content_marketing", "email_marketing", "google_ads", "seo"} |->
       CASE c = "linkedin_ads" ->
              [cpc |-> Rat(850, 100), conversion_rate |-> Rat(25, 1000),
               avg_deal_size |-> RInt(5000), close_rate |-> Rat(20, 100)]
         [] c = "content_marketing" ->
              [articles_per_month |-> RInt(4), avg_monthly_traffic |-> RInt(2000),
               lead_conversion_rate |-> Rat(3, 100),
               avg_deal_size |-> RInt(5000), close_rate |-> Rat(15, 100)]
         [] c = "email_marketing" ->
              [campaigns_per_month |-> RInt(4), list_size |-> RInt(1000),
               open_rate |-> Rat(25, 100), click_rate |-> Rat(8, 100),
               conversion_rate |-> Rat(5, 100),
               avg_deal_size |-> RInt(5000), close_rate |-> Rat(25, 100)]
         [] c = "google_ads" ->
              [cpc |-> RInt(12), conversion_rate |-> Rat(3, 100),
               avg_deal_size |-> RInt(5000), close_rate |-> Rat(18, 100)]
         [] c = "seo" ->
              [ramp_up_months |-> 6, mature_monthly_traffic |-> RInt(5000),
               lead_conversion_rate |-> Rat(25, 1000),
               avg_deal_size |-> RInt(5000), close_rate |-> Rat(15, 100)]]

avg_customer_lifetime_value == 25000
avg_monthly_recurring_revenue == 149
churn_rate_monthly == Rat(5, 100)

\* lines 84-116: leads of the channel's funnel, as an unrounded float
Root_total_leads(channel, budget, duration_months) ==
    LET metrics == channel_metrics[channel]
        d == RInt(duration_months)
    IN  CASE channel = "linkedin_ads" ->
               RMul(RDiv(budget, metrics.cpc), metrics.conversion_rate)
          [] channel = "content_marketing" ->
               RMul(RMul(metrics.avg_monthly_traffic, d), metrics.lead_conversion_rate)
          [] channel = "email_marketing" ->
               LET total_campaigns == RMul(metrics.campaigns_per_month, d)
                   total_opens == RMul(RMul(total_campaigns, metrics.list_size),
                                       metrics.open_rate)
                   total_clicks == RMul(total_opens, metrics.click_rate)
               IN  RMul(total_clicks, metrics.conversion_rate)
          [] channel = "google_ads" ->
               RMul(RDiv(budget, metrics.cpc), metrics.conversion_rate)
          [] channel = "seo" ->
               LET traffic_multiplier ==
                       IF duration_months <= metrics.ramp_up_months
                       THEN Rat(duration_months, metrics.ramp_up_months)
                       ELSE RInt(1)
                   total_traffic == RMul(RMul(metrics.mature_monthly_traffic, d),
                                         traffic_multiplier)
               IN  RMul(total_traffic, metrics.lead_conversion_rate)

Root_recommendation(roi_percentage) ==
    IF RLt(RInt(200), roi_percentage) THEN "excellent"
    ELSE IF RLt(RInt(100), roi_percentage) THEN "strong"
    ELSE IF RLt(Zero, roi_percentage) THEN "positive"
    ELSE "negative"

\* lines 122-169: the metrics derived from the leads and customers of the funnel
Root_metrics(channel, budget, duration_months, total_leads, total_customers, total_revenue, cost_per_customer) ==
    LET net_profit == RSub(total_revenue, budget)
        roi_percentage ==
            IF RLt(Zero, budget)
            THEN RMul(RDiv(net_profit, budget), RInt(100)) ELSE Zero
    IN  [channel |-> channel,
         budget |-> budget,
         duration_months |-> duration_months,
         monthly_spend |-> RDiv(budget, RInt(duration_months)),
         total_leads |-> PyInt(total_leads),
         total_customers |-> PyInt(total_customers),
         total_revenue |-> total_revenue,
         lifetime_value |-> RMul(total_customers, RInt(avg_customer_lifetime_value)),
         cost_per_lead |->
             IF RLt(Zero, total_leads) THEN RDiv(budget, total_leads) ELSE Zero,
         cost_per_customer |-> cost_per_customer,
         ltv_to_cac_ratio |->
             IF RLt(Zero, cost_per_customer)
             THEN RDiv(RInt(avg_customer_lifetime_value), cost_per_customer) ELSE Zero,
         payback_period_months |->
             IF avg_monthly_recurring_revenue > 0
             THEN RDiv(cost_per_customer, RInt(avg_monthly_recurring_revenue))
             ELSE Zero,
         net_profit |-> net_profit,
         roi_percentage |-> roi_percentage,
         return_multiple |->
             IF RLt(Zero, budget) THEN RDiv(total_revenue, budget) ELSE Zero,
         recommendation |-> Root_recommendation(roi_percentage)]

\* lines 123 and 130: revenue and cost per customer of the customers won
Root_customer_metrics(channel, budget, duration_months, metrics, total_leads, total_customers) ==
    Root_metrics(channel, budget, duration_months, total_leads, total_customers,
                 RMul(total_customers, metrics.avg_deal_size),
                 IF RLt(Zero, total_customers)
                 THEN RDiv(budget, total_customers) ELSE Zero)

\* lines 84-116: total_customers = total_leads * close_rate, in every branch
Root_lead_metrics(channel, budget, duration_months, metrics, total_leads) ==
    Root_customer_metrics(channel, budget, duration_months, metrics, total_leads,
                          RMul(total_leads, metrics.close_rate))

Root_calculate_campaign_roi(channel, budget, duration_months) ==
    IF ~HasKey(channel_metrics, channel)
    THEN Raise("ValueError", "Unknown channel", {channel}, DOMAIN channel_metrics)
    ELSE IF duration_months = 0
    THEN Raise("ZeroDivisionError", "division by zero", {}, {})
    ELSE Return(Root_lead_metrics(
                    channel, budget, duration_months, channel_metrics[channel],
                    Root_total_leads(channel, budget, duration_months)))

\* lines 193-197: the score formula over the evaluation at the test budget
Root_score(test_roi, test_budget) ==
    RAdd(RAdd(RMul(test_roi.roi_percentage, Rat(4, 10)),
              RMul(RMul(test_roi.ltv_to_cac_ratio, RInt(20)), Rat(3, 10))),
         RMul(RMul(RDiv(RInt(test_roi.total_customers), Rat(test_budget, 1000)),
                   RInt(100)),
              Rat(3, 10)))

\* lines 188-198: efficiency score of one known channel at the test budget
Root_efficiency_score(channel) ==
    Root_score(Root_calculate_campaign_roi(channel, RInt(1000), 1).value, 1000)

\* lines 212-225 read only the customers and the revenue of each channel's
\* evaluation at duration 3: the part of calculate_campaign_roi that yields them
Root_customers_revenue(metrics, total_customers) ==
    [total_customers |-> PyInt(total_customers),
     total_revenue |-> RMul(total_customers, metrics.avg_deal_size)]

Root_performance(channel, budget, duration_months) ==
    Root_customers_revenue(
        channel_metrics[channel],
        RMul(Root_total_leads(channel, budget, duration_months),
             channel_metrics[channel].close_rate))

\* The floats derived from revenue minus budget (each entry's 'roi', the
\* aggregate total_revenue and weighted_average_roi, lines 221, 225, 240) have
\* exact values whose numerators exceed the integer width of the model; they
\* are outputs only and are left out of the returned record.  The execution
\* priority strings index the entries sorted by 'roi' at positions 0 and 1
\* (lines 228-238), which needs two entries whatever their order.
\* lines 216-252: the plan entries, the execution priority and the totals;
\* sorted_channels has the entries of keys
Root_plan(total_budget, keys, allocations, channel_roi) ==
    IF Len(keys) < 2
    THEN Raise("IndexError", "list index out of range", {}, {})
    ELSE Return(
           [total_budget |-> total_budget,
            optimized_allocation |->
                [c \in Range(keys) |->
                   [budget |-> RMul(total_budget, allocations[c]),
                    percentage |-> PyInt(RMul(allocations[c], RInt(100))),
                    expected_customers |-> channel_roi[c].total_customers,
                    expected_revenue |-> channel_roi[c].total_revenue]],
            total_customers |->
                PyInt(RSumFun([c \in Range(keys) |->
                                 RInt(channel_roi[c].total_customers)],
                              Range(keys))),
            execution_priority |-> 3])

\* lines 212-214: each channel evaluated at its share of the budget
Root_allocate(total_budget, keys, allocations) ==
    Root_plan(total_budget, keys, allocations,
              [c \in Range(keys) |->
                 Root_performance(c, RMul(total_budget, allocations[c]), 3)])

\* lines 200-205: shares proportional to the scores
Root_normalize(total_budget, keys, channel_scores) ==
    LET total_score == RSumFun(channel_scores, Range(keys))
    IN  IF keys # <<>> /\ total_score = Zero
        THEN Raise("ZeroDivisionError", "division by zero", {}, {})
        ELSE Root_allocate(total_budget, keys,
                           [c \in Range(keys) |->
                              RDiv(channel_scores[c], total_score)])

Root_optimize_known(total_budget, keys) ==
    Root_normalize(total_budget, keys,
                   [c \in Range(keys) |-> Root_efficiency_score(c)])

Root_optimize_budget_allocation(total_budget, channels) ==
    Root_optimize_known(
        total_budget,
        SelectSeq(DictKeys(channels), LAMBDA c : HasKey(channel_metrics, c)))

Root_channel_allocation ==
    [c \in {"linkedin_ads", "content_marketing", "email_marketing", "seo"} |->
       CASE c = "linkedin_ads" -> Rat(35, 100)
         [] c = "content_marketing" -> Rat(30, 100)
         [] c = "email_marketing" -> Rat(20, 100)
         [] c = "seo" -> Rat(15, 100)]

RECURSIVE RPow(_, _)
RPow(a, k) == IF k = 0 THEN RInt(1) ELSE RMul(a, RPow(a, k - 1))

\* lines 283-292: the results of the channels in one month
Root_month_results(monthly_budget, duration_months, month) ==
    [c \in DOMAIN Root_channel_allocation |->
       LET channel_budget == RMul(monthly_budget, Root_channel_allocation[c])
           efficiency_multiplier ==
               RMin(RInt(1),
                    RAdd(Rat(5, 10), RMul(Rat(month, duration_months), Rat(5, 10))))
           adjusted_budget == RMul(channel_budget, efficiency_multiplier)
       IN  Root_calculate_campaign_roi(c, adjusted_budget, 1).value]

\* lines 294-308: the totals of one month, from the loop state prev and the
\* month's channel results res
Root_month(prev, res, monthly_budget, month) ==
    LET month_customers ==
            RSumFun([c \in DOMAIN res |-> RInt(res[c].total_customers)], DOMAIN res).n
        month_revenue ==
            RSumFun([c \in DOMAIN res |-> res[c].total_revenue], DOMAIN res)
        cumulative_customers == prev.cumulative_customers + month_customers
        cumulative_revenue == RAdd(prev.cumulative_revenue, month_revenue)
        mrr == RMul(RMul(RInt(cumulative_customers), RInt(avg_monthly_recurring_revenue)),
                    RPow(RSub(RInt(1), churn_rate_monthly), month))
    IN  [monthly_breakdown |->
            Append(prev.monthly_breakdown,
                   [month |-> month,
                    spend |-> monthly_budget,
                    customers |-> month_customers,
                    cumulative_customers |-> cumulative_customers,
                    mrr |-> mrr,
                    revenue |-> month_revenue,
                    cumulative_revenue |-> cumulative_revenue]),
         cumulative_customers |-> cumulative_customers,
         cumulative_revenue |-> cumulative_revenue]

\* lines 273-308: the loop state after `month` iterations
RECURSIVE Root_simulate(_, _, _)
Root_simulate(monthly_budget, duration_months, month) ==
    IF month = 0
    THEN [monthly_breakdown |-> <<>>, cumulative_customers |-> 0,
          cumulative_revenue |-> Zero]
    ELSE Root_month(Root_simulate(monthly_budget, duration_months, month - 1),
                    Root_month_results(monthly_budget, duration_months, month),
                    monthly_budget, month)

\* lines 310-351: the summary over the monthly breakdown
Root_summary(monthly_budget, duration_months, monthly_breakdown) ==
    LET total_investment == RMul(monthly_budget, RInt(duration_months))
    IN  IF monthly_breakdown = <<>>
        THEN Raise("IndexError", "list index out of range", {}, {})
        ELSE IF total_investment = Zero
        THEN Raise("ZeroDivisionError", "division by zero", {}, {})
        ELSE
          LET final_month == monthly_breakdown[Len(monthly_breakdown)]
          IN  Return(
                [monthly_budget |-> monthly_budget,
                 total_investment |-> total_investment,
                 channel_allocation |-> Root_channel_allocation,
                 monthly_breakdown |-> monthly_breakdown,
                 total_customers |-> final_month.cumulative_customers,
                 total_revenue |-> final_month.cumulative_revenue,
                 final_mrr |-> final_month.mrr,
                 total_roi |->
                     RMul(RDiv(RSub(final_month.cumulative_revenue, total_investment),
                               total_investment), RInt(100)),
                 break_even_month |->
                     FirstMonth(monthly_breakdown,
                       [i \in 1..Len(monthly_breakdown) |->
                          RLe(RMul(RInt(i), monthly_budget),
                              monthly_breakdown[i].cumulative_revenue)]),
                 profitable_mrr_month |->
                     FirstMonth(monthly_breakdown,
                       [i \in 1..Len(monthly_breakdown) |->
                          RLe(monthly_budget, monthly_breakdown[i].mrr)]),
                 months_to_100_customers |->
                     FirstMonth(monthly_breakdown,
                       [i \in 1..Len(monthly_breakdown) |->
                          monthly_breakdown[i].cumulative_customers >= 100])])

Root_project_growth_trajectory(monthly_budget, duration_months) ==
    Root_summary(monthly_budget, duration_months,
                 Root_simulate(monthly_budget, duration_months,
                               IF duration_months > 0 THEN duration_months ELSE 0
                              ).monthly_breakdown)

\* ------------------- src/marketing-director-agent/roi_calculator.py (Agent)
\* default_allocation of _allocate_based_on_best_practices, adjusted for the
\* brand_awareness objective
Agent_default_allocation(objectives) ==
    LET awareness == "brand_awareness" \in Range(objectives)
    IN  [ch \in {"email", "social_media", "content", "paid_ads", "seo", "events", "pr"} |->
            CASE ch = "email" -> Rat(10, 100)
              [] ch = "social_media" -> IF awareness THEN Rat(25, 100) ELSE Rat(20, 100)
              [] ch = "content" -> Rat(20, 100)
              [] ch = "paid_ads" -> IF awareness THEN Rat(30, 100) ELSE Rat(35, 100)
              [] ch = "seo" -> Rat(10, 100)
              [] ch = "events" -> Rat(15, 100)
              [] ch = "pr" -> IF awareness THEN Rat(15, 100) ELSE Rat(10, 100)]

\* default_allocation.get(ch, 0.10)
Agent_share(default_allocation, ch) ==
    IF HasKey(default_allocation, ch) THEN default_allocation[ch] ELSE Rat(10, 100)

RECURSIVE Agent_selected_total(_, _)
Agent_selected_total(default_allocation, channels) ==
    IF channels = <<>> THEN Zero
    ELSE RAdd(Agent_share(default_allocation, Head(channels)),
              Agent_selected_total(default_allocation, Tail(channels)))

Agent_best_practices(total_budget, channels, default_allocation, selected_total) ==
    [channel \in Range(channels) |->
        PyRound2(RMul(total_budget,
                      RDiv(Agent_share(default_allocation, channel), selected_total)))]

Agent_allocate_based_on_best_practices(total_budget, channels, objectives) ==
    Agent_best_practices(total_budget, channels, Agent_default_allocation(objectives),
                         Agent_selected_total(Agent_default_allocation(objectives),
                                              channels))

\* the performance score of a channel: its roi_percentage floored at 0, or 100
Agent_score(performance, channel) ==
    IF HasKey(performance, channel)
    THEN (IF performance[channel] > 0 THEN performance[channel] ELSE 0)
    ELSE 100

RECURSIVE Agent_total_score(_, _)
Agent_total_score(performance, channels) ==
    IF channels = <<>> THEN 0
    ELSE Agent_score(performance, Head(channels))
         + Agent_total_score(performance, Tail(channels))

Agent_proportional(channels, performance, total_score, min_allocation, remaining_budget) ==
    [channel \in Range(channels) |->
        RAdd(min_allocation,
             RMul(remaining_budget,
                  IF total_score > 0
                  THEN Rat(Agent_score(performance, channel), total_score)
                  ELSE Rat(1, Len(channels))))]

Agent_allocate_based_on_performance(total_budget, channels, performance) ==
    Agent_proportional(channels, performance, Agent_total_score(performance, channels),
                       RMul(total_budget, Rat(5, 100)),
                       RSub(total_budget,
                            RMul(RMul(total_budget, Rat(5, 100)), RInt(Len(channels)))))

\* the revenue expected of one channel's budget
Agent_channel_revenue(allocation, performance, channel) ==
    IF HasKey(performance, channel)
    THEN RMul(allocation[channel], RAdd(RInt(1), Rat(performance[channel], 100)))
    ELSE RMul(allocation[channel], RInt(2))

RECURSIVE Agent_expected_revenue(_, _, _)
Agent_expected_revenue(allocation, performance, S) ==
    IF S = {} THEN Zero
    ELSE LET ch == CHOOSE c \in S : TRUE
         IN  RAdd(Agent_channel_revenue(allocation, performance, ch),
                  Agent_expected_revenue(allocation, performance, S \ {ch}))

Agent_returns(performance, total_investment, expected_revenue) ==
    IF performance = None
    THEN Return([total_investment |-> total_investment,
                 expected_revenue |-> RMul(total_investment, RInt(2)),
                 total_roi |-> RInt(200),
                 confidence |-> "medium"])
    ELSE IF total_investment = Zero
    THEN Raise("ZeroDivisionError", "division by zero", {}, {})
    ELSE Return([total_investment |-> total_investment,
                 expected_revenue |-> PyRound2(expected_revenue),
                 total_roi |-> PyRound2(RMul(RDiv(RSub(expected_revenue, total_investment),
                                                  total_investment),
                                             RInt(100))),
                 confidence |-> "high"])

Agent_calculate_expected_returns(allocation, performance) ==
    Agent_returns(performance, RSumFun(allocation, DOMAIN allocation),
                  IF performance = None THEN Zero
                  ELSE Agent_expected_revenue(allocation, performance, DOMAIN allocation))

Agent_calculate_confidence_level(performance) ==
    IF performance = None THEN "Medium - Based on industry benchmarks"
    ELSE IF Cardinality(DOMAIN performance) >= 3
    THEN "High - Based on substantial historical data"
    ELSE "Medium - Based on limited historical data"

Agent_explain_allocation_rationale(performance) ==
    IF performance # None THEN "historical performance" ELSE "industry best practices"

\* 'awareness' in str(objectives).lower(), then 'lead' in str(objectives).lower()
Agent_define_optimization_strategy(objectives) ==
    IF "brand_awareness" \in Range(objectives)
    THEN "Focus on reach and engagement metrics, optimize for brand lift"
    ELSE IF "lead_generation" \in Range(objectives)
    THEN "Focus on lead volume and quality, optimize for cost per lead"
    ELSE "Focus on revenue and ROI, optimize for customer acquisition cost"

\* the optimization dict, built from the allocation and its expected returns
Agent_optimization(total_budget, channels, performance, objectives, now, allocation, expected_returns) ==
    IF expected_returns.outcome # "ok" THEN expected_returns
    ELSE IF total_budget = Zero /\ channels # <<>>
    THEN Raise("ZeroDivisionError", "float division by zero", {}, {})
    ELSE Return([total_budget |-> total_budget,
                 channels |-> channels,
                 recommended_allocation |-> allocation,
                 allocation_percentages |->
                     [channel \in DOMAIN allocation |->
                         PyRound1(RMul(RDiv(allocation[channel], total_budget),
                                       RInt(100)))],
                 expected_returns |-> expected_returns.value,
                 expected_roi |-> PyRound2(expected_returns.value.total_roi),
                 confidence_level |-> Agent_calculate_confidence_level(performance),
                 rationale |-> Agent_explain_allocation_rationale(performance),
                 optimization_strategy |-> Agent_define_optimization_strategy(objectives),
                 testing_budget |-> PyRound2(RMul(total_budget, Rat(15, 100))),
                 timestamp |-> now])

Agent_optimize_allocated(total_budget, channels, performance, objectives, now, allocation) ==
    Agent_optimization(total_budget, channels, performance, objectives, now, allocation,
                       Agent_calculate_expected_returns(allocation, performance))

\* now is what datetime.now() answers during the call
Agent_optimize_budget_allocation(total_budget, channels, historical_performance, objectives, now) ==
    Agent_optimize_allocated(
        total_budget, channels, historical_performance, objectives, now,
        IF historical_performance # None
        THEN Agent_allocate_based_on_performance(total_budget, channels,
                                                 historical_performance)
        ELSE Agent_allocate_based_on_best_practices(total_budget, channels, objectives))

\* ------------------------------------------------- inputs of the callers
\* monthly budgets: invalid ones, ordinary ones and one large enough that the
\* revenue of the first months stays below the spend
MonthlyBudgets == {0 - 10000, 0, 2500, 5000, 10000, 500000}

ProjectionMonths == 0..MaxMonths

Dict3(a, b, c) ==
    [k \in {"linkedin_ads", "content_marketing", "email_marketing"} |->
       CASE k = "linkedin_ads" -> a
         [] k = "content_marketing" -> b
         [] k = "email_marketing" -> c]

Dict2(k1, a, k2, b) == [k \in {k1, k2} |-> IF k = k1 THEN a ELSE b]

\* strategies handed to set_allocation_strategy: sums 1.0, 1.0, 1.005 and 0.8
Strategies ==
    {Dict3(Rat(50, 100), Rat(30, 100), Rat(20, 100)),
     Dict2("linkedin_ads", Rat(70, 100), "google_ads", Rat(30, 100)),
     Dict3(Rat(600, 1000), Rat(300, 1000), Rat(105, 1000)),
     Dict2("linkedin_ads", Rat(50, 100), "content_marketing", Rat(30, 100))}

\* custom_weights arguments; the empty dict stands for None (both are falsy),
\* and one table has a weight below 0
CustomWeights ==
    {EmptyDict,
     Dict3(Rat(50, 100), Rat(30, 100), Rat(20, 100)),
     Dict2("linkedin_ads", Rat(120, 100), "content_marketing", Rat(0 - 20, 100))}

\* constraints arguments, channel -> (min_pct, max_pct) in percent: a feasible
\* map, one with min > max and one whose minimums exceed the whole budget
Bounds(lo, hi) == [min_pct |-> lo, max_pct |-> hi]

ConstraintMaps ==
    {Dict2("linkedin_ads", Bounds(20, 50), "content_marketing", Bounds(10, 40)),
     Dict2("linkedin_ads", Bounds(50, 20), "content_marketing", Bounds(10, 40)),
     Dict2("linkedin_ads", Bounds(70, 90), "content_marketing", Bounds(60, 80))}

\* the constraints keyword left out of the call
NoConstraints == EmptyDict

\* keyword arguments of a call of the weight-table allocator: custom_weights
\* or constraints, each with the other left out
OptimizeKeywords ==
    {[custom_weights |-> w, constraints |-> NoConstraints] : w \in CustomWeights}
    \cup {[custom_weights |-> EmptyDict, constraints |-> c] : c \in ConstraintMaps}

\* channel_mix arguments: shares summing to 1.0 and shares summing to 0.8
ChannelMixes ==
    {[c \in {"linkedin_ads", "google_ads", "email_marketing"} |->
        CASE c = "linkedin_ads" -> Rat(50, 100)
          [] c = "google_ads" -> Rat(30, 100)
          [] c = "email_marketing" -> Rat(20, 100)],
     Dict2("linkedin_ads", Rat(50, 100), "content_marketing", Rat(30, 100))}

\* the channel_mix keyword left out of the call
NoMix == EmptyDict

\* channels handed to the agent's optimizer; podcast is not in its table
AgentChannels == {"paid_ads", "podcast"}

\* total budgets handed to the agent's optimizer
AgentBudgets == {0, 10000}

AgentChannelLists == SeqsUpTo(AgentChannels, MaxChannels)

\* roi_percentage per channel of the historical_performance argument
HistoricalPerformances ==
    {None,
     [ch \in {"paid_ads", "email"} |-> IF ch = "paid_ads" THEN 300 ELSE 100],
     [ch \in {"paid_ads", "seo"} |-> IF ch = "paid_ads" THEN 0 - 50 ELSE 0]}

Objectives == {None, <<"brand_awareness">>, <<"lead_generation">>}

\* what datetime.now() can answer
WallClock == 0..MaxClock

\* references into heap: the dict of the class attribute DEFAULT_ALLOCATIONS,
\* and no object
ClassTable == 1
NoObject == 0
\* the objects that exist once two calculators are constructed
InitialObjects == 3

\* frames of the overlapping calls when no call is in progress
NoOptimizer ==
    [pc |-> "idle", total_budget |-> 0, channels |-> <<>>, weights |-> 0, i |-> 0,
     allocation |-> EmptyDict, total_weight |-> Zero, outcome |-> "none",
     result |-> NoValue, tables |-> {}]

NoSetter == [pc |-> "idle", strategy |-> EmptyDict]

\* ---------------------------------------------------------------- actions
Init ==
    /\ allocation_strategy = DEFAULT_ALLOCATIONS      \* ROICalculator.__init__
    /\ call = NoCall
    /\ outcome = "none"
    /\ error = NoError
    /\ roi = NoValue
    /\ plan = NoValue
    /\ projection = NoValue
    /\ previous = NoPrevious
    /\ heap = <<DEFAULT_ALLOCATIONS,                  \* the class attribute
                 DEFAULT_ALLOCATIONS,                  \* DEFAULT_ALLOCATIONS.copy()
                 DEFAULT_ALLOCATIONS>>                 \* the copy of a second instance
    /\ self_strategy = ClassTable + 1
    /\ other_strategy = ClassTable + 2
    /\ passed = NoObject
    /\ installed = NoValue
    /\ module_plan = NoValue
    /\ optimizer = NoOptimizer
    /\ setter = NoSetter
    /\ calculations = <<>>                            \* agent __init__, line 25
    /\ agent_call = "none"
    /\ returned = NoValue

Idle == call = NoCall

\* the caller is free to call, or repeats the call of op it has just made
MayCall(impl, op) == Idle \/ (call.impl = impl /\ call.op = op)

\* an argument of a call: any value of S, or on a repeated call the same
\* value as the last time
Arg(S, last) == IF Idle THEN S ELSE {last}

\* what the last call answered
Answer ==
    [outcome |-> outcome, error |-> error, roi |-> roi, plan |-> plan,
     projection |-> projection]

\* the call c, a fresh one or the last one repeated, completes with r; kind
\* says which value it returns
Complete(c, r, kind) ==
    /\ UNCHANGED <<conc_vars, agent_vars, inst_vars>>
    /\ call \in {NoCall, c}
    /\ previous' = IF call = c THEN Answer ELSE NoPrevious
    /\ call' = c
    /\ outcome' = r.outcome
    /\ error' = r.error
    /\ roi' = IF kind = "roi" THEN r.value ELSE NoValue
    /\ plan' = IF kind = "plan" THEN r.value ELSE NoValue
    /\ projection' = IF kind = "projection" THEN r.value ELSE NoValue

Call_Pkg_calculate_campaign_roi ==
    /\ MayCall("Pkg", "calculate_campaign_roi")
    /\ \E channel \in Arg(Channels, call.channel),
          budget \in Arg(Budgets, call.budget) :
         Complete([NoCall EXCEPT !.impl = "Pkg", !.op = "calculate_campaign_roi",
                                 !.channel = channel, !.budget = budget],
                  Pkg_calculate_campaign_roi(channel, RInt(budget)), "roi")
    /\ UNCHANGED allocation_strategy

Call_Backend_calculate_campaign_roi ==
    /\ MayCall("Backend", "calculate_campaign_roi")
    /\ \E channel \in Arg(Channels, call.channel),
          budget \in Arg(Budgets, call.budget),
          duration_months \in Arg(Durations, call.duration_months) :
         Complete([NoCall EXCEPT !.impl = "Backend", !.op = "calculate_campaign_roi",
                                 !.channel = channel, !.budget = budget,
                                 !.duration_months = duration_months],
                  Backend_calculate_campaign_roi(channel, RInt(budget), duration_months),
                  "roi")
    /\ UNCHANGED allocation_strategy

Call_Root_calculate_campaign_roi ==
    /\ MayCall("Root", "calculate_campaign_roi")
    /\ \E channel \in Arg(Channels, call.channel),
          budget \in Arg(Budgets, call.budget),
          duration_months \in Arg(Durations, call.duration_months) :
         Complete([NoCall EXCEPT !.impl = "Root", !.op = "calculate_campaign_roi",
                                 !.channel = channel, !.budget = budget,
                                 !.duration_months = duration_months],
                  Root_calculate_campaign_roi(channel, RInt(budget), duration_months),
                  "roi")
    /\ UNCHANGED allocation_strategy

Call_RoiCalc_optimize_budget_allocation ==
    /\ MayCall("RoiCalc", "optimize_budget_allocation")
    /\ \E total_budget \in Arg(TotalBudgets, call.budget),
          channels \in Arg(ChannelLists, call.channels),
          kw \in Arg(OptimizeKeywords, [custom_weights |-> call.custom_weights,
                                        constraints |-> call.constraints]) :
         Complete([NoCall EXCEPT !.impl = "RoiCalc", !.op = "optimize_budget_allocation",
                                 !.budget = total_budget, !.channels = channels,
                                 !.custom_weights = kw.custom_weights,
                                 !.constraints = kw.constraints],
                  IF kw.constraints # NoConstraints
                  THEN UnexpectedKeyword("constraints")
                  ELSE RoiCalc_optimize_budget_allocation(
                           allocation_strategy, RInt(total_budget), channels,
                           kw.custom_weights),
                  "plan")
    /\ UNCHANGED allocation_strategy

Call_Backend_optimize_budget_allocation ==
    /\ MayCall("Backend", "optimize_budget_allocation")
    /\ \E total_budget \in Arg(TotalBudgets, call.budget),
          channels \in Arg(ChannelLists, call.channels),
          constraints \in Arg({NoConstraints} \cup ConstraintMaps, call.constraints) :
         Complete([NoCall EXCEPT !.impl = "Backend", !.op = "optimize_budget_allocation",
                                 !.budget = total_budget, !.channels = channels,
                                 !.constraints = constraints],
                  IF constraints # NoConstraints
                  THEN UnexpectedKeyword("constraints")
                  ELSE Backend_optimize_budget_allocation(RInt(total_budget), channels),
                  "plan")
    /\ UNCHANGED allocation_strategy

Call_Root_optimize_budget_allocation ==
    /\ MayCall("Root", "optimize_budget_allocation")
    /\ \E total_budget \in Arg(TotalBudgets, call.budget),
          channels \in Arg(ChannelLists, call.channels) :
         Complete([NoCall EXCEPT !.impl = "Root", !.op = "optimize_budget_allocation",
                                 !.budget = total_budget, !.channels = channels],
                  Root_optimize_budget_allocation(RInt(total_budget), channels),
                  "plan")
    /\ UNCHANGED allocation_strategy

Call_Agent_optimize_budget_allocation ==
    /\ MayCall("Agent", "optimize_budget_allocation")
    /\ \E total_budget \in Arg(AgentBudgets, call.budget),
          channels \in Arg(AgentChannelLists, call.channels),
          historical_performance \in Arg(HistoricalPerformances, call.historical_performance),
          objectives \in Arg(Objectives, call.objectives), now \in WallClock :
         Complete([NoCall EXCEPT !.impl = "Agent", !.op = "optimize_budget_allocation",
                                 !.budget = total_budget, !.channels = channels,
                                 !.historical_performance = historical_performance,
                                 !.objectives = objectives],
                  Agent_optimize_budget_allocation(RInt(total_budget), channels,
                                                   historical_performance, objectives,
                                                   now),
                  "plan")
    /\ UNCHANGED allocation_strategy

Call_RoiCalc_set_allocation_strategy ==
    /\ MayCall("RoiCalc", "set_allocation_strategy")
    /\ \E strategy \in Arg(Strategies \cup {DEFAULT_ALLOCATIONS}, call.strategy) :
         LET r == RoiCalc_set_allocation_strategy(strategy)
         IN  /\ Complete([NoCall EXCEPT !.impl = "RoiCalc",
                                        !.op = "set_allocation_strategy",
                                        !.strategy = strategy],
                         [r EXCEPT !.value = NoValue], "none")
             /\ allocation_strategy' =
                    IF r.outcome = "ok" THEN r.value ELSE allocation_strategy

Call_Backend_project_growth_trajectory ==
    /\ MayCall("Backend", "project_growth_trajectory")
    /\ \E monthly_budget \in Arg(MonthlyBudgets, call.budget),
          duration_months \in Arg(ProjectionMonths, call.duration_months),
          channel_mix \in Arg({NoMix} \cup ChannelMixes, call.channel_mix) :
         Complete([NoCall EXCEPT !.impl = "Backend", !.op = "project_growth_trajectory",
                                 !.budget = monthly_budget,
                                 !.duration_months = duration_months,
                                 !.channel_mix = channel_mix],
                  IF channel_mix # NoMix
                  THEN UnexpectedKeyword("channel_mix")
                  ELSE Backend_project_growth_trajectory(RInt(monthly_budget),
                                                         duration_months),
                  "projection")
    /\ UNCHANGED allocation_strategy

Call_Root_project_growth_trajectory ==
    /\ MayCall("Root", "project_growth_trajectory")
    /\ \E monthly_budget \in Arg(MonthlyBudgets, call.budget),
          duration_months \in Arg(ProjectionMonths, call.duration_months) :
         Complete([NoCall EXCEPT !.impl = "Root", !.op = "project_growth_trajectory",
                                 !.budget = monthly_budget,
                                 !.duration_months = duration_months],
                  Root_project_growth_trajectory(RInt(monthly_budget), duration_months),
                  "projection")
    /\ UNCHANGED allocation_strategy

\* the caller takes the returned value (or the exception) and is free to call again
ReturnToCaller ==
    /\ ~Idle
    /\ call' = NoCall
    /\ outcome' = "none"
    /\ error' = NoError
    /\ roi' = NoValue
    /\ plan' = NoValue
    /\ projection' = NoValue
    /\ previous' = NoPrevious
    /\ UNCHANGED allocation_strategy
    /\ UNCHANGED <<conc_vars, agent_vars, inst_vars>>

Next ==
    \/ Call_Pkg_calculate_campaign_roi
    \/ Call_Backend_calculate_campaign_roi
    \/ Call_Root_calculate_campaign_roi
    \/ Call_RoiCalc_optimize_budget_allocation
    \/ Call_Backend_optimize_budget_allocation
    \/ Call_Root_optimize_budget_allocation
    \/ Call_Agent_optimize_budget_allocation
    \/ Call_RoiCalc_set_allocation_strategy
    \/ Call_Backend_project_growth_trajectory
    \/ Call_Root_project_growth_trajectory
    \/ ReturnToCaller

Spec == Init /\ [][Next]_vars

\* ------------------- src/backend/roi_calc.py: calls that overlap in time
\* One calculator is shared by a thread inside optimize_budget_allocation and
\* threads calling set_allocation_strategy. A step is what runs between two
\* points where the interpreter may switch threads: one statement, or one
\* iteration of a loop. Dicts are objects of the heap; a frame holds references.

\* total budgets and channel lists of the overlapping optimize calls
ConcBudgets == {0, 10000}

ConcChannelLists == SeqsUpTo({"linkedin_ads", "email_marketing"}, MaxChannels)

\* strategies of the overlapping set_allocation_strategy calls: sums 1.0 and 0.8
ConcStrategies ==
    {Dict3(Rat(50, 100), Rat(30, 100), Rat(20, 100)),
     Dict2("linkedin_ads", Rat(50, 100), "content_marketing", Rat(30, 100))}

\* an optimize call is between its first and its last statement
InFlight == optimizer.pc \in {"loop", "normalize"}

\* lines 50-61: the checks, the choice of the weights and the empty allocation
Conc_optimize_enter(total_budget, channels, table) ==
    IF total_budget <= 0 \/ channels = <<>>
    THEN [NoOptimizer EXCEPT !.pc = "done", !.total_budget = total_budget,
                             !.channels = channels, !.outcome = "ValueError"]
    ELSE [NoOptimizer EXCEPT !.pc = "loop", !.total_budget = total_budget,
                             !.channels = channels, !.weights = table, !.i = 1]

\* lines 64-70: one iteration of the first pass, weights being the dict referred to
Conc_optimize_pass(frame, weights, channel) ==
    [frame EXCEPT
       !.allocation = [c \in DOMAIN frame.allocation \cup {channel} |->
                         IF c = channel
                         THEN (IF HasKey(weights, channel) THEN weights[channel] ELSE Zero)
                         ELSE frame.allocation[c]],
       !.total_weight = IF HasKey(weights, channel)
                        THEN RAdd(frame.total_weight, weights[channel])
                        ELSE frame.total_weight,
       !.i = frame.i + 1,
       !.pc = IF frame.i = Len(frame.channels) THEN "normalize" ELSE "loop"]

\* lines 72-83: the normalization and the return
Conc_optimize_finish(frame) ==
    [frame EXCEPT
       !.pc = "done",
       !.outcome = "ok",
       !.result =
          IF RLt(Zero, frame.total_weight)
          THEN [c \in DOMAIN frame.allocation |->
                  IF RLt(Zero, frame.allocation[c])
                  THEN RMul(RDiv(frame.allocation[c], frame.total_weight),
                            RInt(frame.total_budget))
                  ELSE frame.allocation[c]]
          ELSE [c \in DOMAIN frame.allocation |->
                  RDiv(RInt(frame.total_budget), RInt(Len(frame.channels)))]]

\* mutant: the strategy is written into the dict the calculator already has
Conc_set_assign_in_place(objects, ref, strategy) ==
    [heap |-> [objects EXCEPT ![ref] = strategy], self_strategy |-> ref]

\* line 99: self.allocation_strategy = strategy.copy() binds a new dict
Conc_set_assign(objects, ref, strategy) ==
    [heap |-> Append(objects, strategy), self_strategy |-> Len(objects) + 1]

Conc_optimize_call ==
    /\ optimizer.pc = "idle"
    /\ \E total_budget \in ConcBudgets, channels \in ConcChannelLists :
         optimizer' = [Conc_optimize_enter(total_budget, channels, self_strategy)
                         EXCEPT !.tables = {heap[self_strategy]}]
    /\ UNCHANGED <<heap, self_strategy, setter, seq_vars, agent_vars, inst_vars>>

Conc_optimize_iterate ==
    /\ optimizer.pc = "loop"
    /\ optimizer' = Conc_optimize_pass(optimizer, heap[optimizer.weights],
                                       optimizer.channels[optimizer.i])
    /\ UNCHANGED <<heap, self_strategy, setter, seq_vars, agent_vars, inst_vars>>

Conc_optimize_normalize ==
    /\ optimizer.pc = "normalize"
    /\ optimizer' = Conc_optimize_finish(optimizer)
    /\ UNCHANGED <<heap, self_strategy, setter, seq_vars, agent_vars, inst_vars>>

Conc_optimize_return ==
    /\ optimizer.pc = "done"
    /\ optimizer' = NoOptimizer
    /\ UNCHANGED <<heap, self_strategy, setter, seq_vars, agent_vars, inst_vars>>

Conc_set_call ==
    /\ setter.pc = "idle"
    /\ Len(heap) < InitialObjects + MaxSets
    /\ \E strategy \in ConcStrategies :
         setter' = [pc |-> "validate", strategy |-> strategy]
    /\ UNCHANGED <<heap, self_strategy, optimizer, seq_vars, agent_vars, inst_vars>>

\* lines 95-97: the sum and the check
Conc_set_validate ==
    /\ setter.pc = "validate"
    /\ setter' = [setter EXCEPT
                    !.pc = IF RoiCalc_set_allocation_strategy(setter.strategy).outcome = "ok"
                           THEN "assign" ELSE "raised"]
    /\ UNCHANGED <<heap, self_strategy, optimizer, seq_vars, agent_vars, inst_vars>>

Conc_set_install ==
    /\ setter.pc = "assign"
    /\ heap' = Conc_set_assign(heap, self_strategy, setter.strategy).heap
    /\ self_strategy' = Conc_set_assign(heap, self_strategy, setter.strategy).self_strategy
    /\ setter' = [setter EXCEPT !.pc = "done"]
    /\ optimizer' = IF InFlight
                    THEN [optimizer EXCEPT !.tables = @ \cup {setter.strategy}]
                    ELSE optimizer
    /\ UNCHANGED <<seq_vars, agent_vars, inst_vars>>

Conc_set_return ==
    /\ setter.pc \in {"done", "raised"}
    /\ setter' = NoSetter
    /\ UNCHANGED <<heap, self_strategy, optimizer, seq_vars, agent_vars, inst_vars>>

ConcNext ==
    \/ Conc_optimize_call
    \/ Conc_optimize_iterate
    \/ Conc_optimize_normalize
    \/ Conc_optimize_return
    \/ Conc_set_call
    \/ Conc_set_validate
    \/ Conc_set_install
    \/ Conc_set_return

ConcSpec == Init /\ [][ConcNext]_vars

\* ---- src/marketing-director-agent/roi_calculator.py: the recorded analyses
DictGet(d, k, default) == IF HasKey(d, k) THEN d[k] ELSE default

\* line 30-32: _safe_divide
Agent_safe_divide(numerator, denominator, default) ==
    IF denominator # Zero THEN RDiv(numerator, denominator) ELSE default

\* lines 396-398
Agent_calculate_roi_percentage(revenue, investment) ==
    RMul(Agent_safe_divide(RSub(revenue, investment), investment, Zero), RInt(100))

\* lines 400-402
Agent_calculate_roas(revenue, spend) == Agent_safe_divide(revenue, spend, Zero)

\* lines 404-417
Agent_grade_performance(roi_pct, ltv_cac_ratio) ==
    IF RLe(RInt(400), roi_pct) /\ RLe(RInt(4), ltv_cac_ratio) THEN "A+ (Excellent)"
    ELSE IF RLe(RInt(300), roi_pct) /\ RLe(RInt(3), ltv_cac_ratio) THEN "A (Very Good)"
    ELSE IF RLe(RInt(200), roi_pct) /\ RLe(RInt(2), ltv_cac_ratio) THEN "B (Good)"
    ELSE IF RLe(RInt(100), roi_pct) THEN "C (Average)"
    ELSE IF RLe(Zero, roi_pct) THEN "D (Below Average)"
    ELSE "F (Poor)"

\* lines 419-448
Agent_generate_roi_insights(roi_pct, roas, ltv_cac) ==
    <<IF RLe(RInt(300), roi_pct)
      THEN "Exceptional ROI performance - this campaign is highly profitable"
      ELSE IF RLe(RInt(200), roi_pct)
      THEN "Strong ROI - campaign is performing well above break-even"
      ELSE IF RLe(RInt(100), roi_pct)
      THEN "Positive ROI - campaign is profitable but has room for improvement"
      ELSE IF RLe(Zero, roi_pct)
      THEN "Break-even or slight loss - optimization needed"
      ELSE "Negative ROI - significant improvements required">>
    \o (IF RLe(RInt(5), roas)
        THEN <<"Outstanding ROAS - efficient revenue generation">>
        ELSE IF RLe(RInt(3), roas)
        THEN <<"Good ROAS - healthy return on ad spend">>
        ELSE IF RLt(roas, RInt(2))
        THEN <<"ROAS below target - review targeting and creative">>
        ELSE <<>>)
    \o (IF RLe(RInt(3), ltv_cac)
        THEN <<"Excellent LTV:CAC ratio - sustainable customer acquisition">>
        ELSE IF RLe(Rat(3, 2), ltv_cac)
        THEN <<"Acceptable LTV:CAC ratio - monitor for improvements">>
        ELSE IF RLt(Zero, ltv_cac)
        THEN <<"Low LTV:CAC ratio - focus on customer retention and value">>
        ELSE <<>>)

\* lines 450-467
Agent_generate_roi_recommendations(campaign_data, roi_pct) ==
    (IF RLt(roi_pct, RInt(200))
     THEN <<"Review and optimize underperforming channels",
            "Test new creative and messaging approaches",
            "Refine audience targeting to improve conversion">>
     ELSE <<>>)
    \o (IF RLe(RInt(300), roi_pct)
        THEN <<"Scale successful campaigns with increased budget",
               "Document winning strategies for future campaigns",
               "Test expansion into similar audiences">>
        ELSE <<>>)
    \o <<"Implement continuous A/B testing", "Monitor metrics weekly and adjust as needed">>

\* lines 64-81: the analysis, its metrics computed on lines 48-62
Agent_analysis(campaign_data, results_data, roi_pct, roas, cost_per_lead, cost_per_acquisition, ltv_to_cac_ratio, now) ==
    [campaign_id |-> DictGet(campaign_data, "id", "unknown"),
     campaign_name |-> DictGet(campaign_data, "name", "Campaign"),
     total_investment |-> DictGet(campaign_data, "total_budget", Zero),
     revenue_generated |-> DictGet(results_data, "revenue", Zero),
     roi_percentage |-> PyRound2(roi_pct),
     roas |-> PyRound2(roas),
     leads_generated |-> DictGet(results_data, "leads", Zero),
     customers_acquired |-> DictGet(results_data, "customers", Zero),
     cost_per_lead |-> PyRound2(cost_per_lead),
     cost_per_acquisition |-> PyRound2(cost_per_acquisition),
     avg_customer_value |-> DictGet(results_data, "avg_customer_value", Zero),
     ltv_to_cac_ratio |-> PyRound2(ltv_to_cac_ratio),
     performance_grade |-> Agent_grade_performance(roi_pct, ltv_to_cac_ratio),
     insights |-> Agent_generate_roi_insights(roi_pct, roas, ltv_to_cac_ratio),
     recommendations |-> Agent_generate_roi_recommendations(campaign_data, roi_pct),
     timestamp |-> now]

Agent_cost_per_acquisition(campaign_data, results_data) ==
    Agent_safe_divide(DictGet(campaign_data, "total_budget", Zero),
                      DictGet(results_data, "customers", Zero), Zero)

\* lines 33-83, without the append of line 82: the analysis returned
Agent_calculate_campaign_roi(campaign_data, results_data, now) ==
    Agent_analysis(
        campaign_data, results_data,
        Agent_calculate_roi_percentage(DictGet(results_data, "revenue", Zero),
                                       DictGet(campaign_data, "total_budget", Zero)),
        Agent_calculate_roas(DictGet(results_data, "revenue", Zero),
                             DictGet(campaign_data, "total_budget", Zero)),
        Agent_safe_divide(DictGet(campaign_data, "total_budget", Zero),
                          DictGet(results_data, "leads", Zero), Zero),
        Agent_cost_per_acquisition(campaign_data, results_data),
        Agent_safe_divide(DictGet(results_data, "avg_customer_value", Zero),
                          Agent_cost_per_acquisition(campaign_data, results_data), Zero),
        now)

\* campaigns and results the callers pass
CampaignDatas ==
    {EmptyDict,
     [k \in {"id", "name", "total_budget"} |->
        IF k = "id" THEN "c1" ELSE IF k = "name" THEN "Launch" ELSE RInt(1000)]}

ResultsDatas ==
    {EmptyDict,
     [k \in {"revenue", "leads", "customers", "avg_customer_value"} |->
        IF k = "revenue" THEN RInt(5000) ELSE IF k = "leads" THEN RInt(100)
        ELSE IF k = "customers" THEN RInt(10) ELSE RInt(500)],
     [k \in {"revenue", "leads"} |-> IF k = "revenue" THEN RInt(500) ELSE Zero]}

\* lines 33-83: the analysis is appended to self.calculations and returned
Call_Agent_calculate_campaign_roi ==
    /\ Len(calculations) < MaxCalculations
    /\ \E campaign_data \in CampaignDatas, results_data \in ResultsDatas, now \in WallClock :
         /\ calculations' =
               Append(calculations,
                      Agent_calculate_campaign_roi(campaign_data, results_data, now))
         /\ returned' = Agent_calculate_campaign_roi(campaign_data, results_data, now)
    /\ agent_call' = "calculate_campaign_roi"
    /\ UNCHANGED <<seq_vars, conc_vars, inst_vars>>

\* lines 987-989: the list itself is returned
Call_Agent_get_all_calculations ==
    /\ returned' = calculations
    /\ agent_call' = "get_all_calculations"
    /\ UNCHANGED <<calculations, seq_vars, conc_vars, inst_vars>>

AgentNext ==
    \/ Call_Agent_calculate_campaign_roi
    \/ Call_Agent_get_all_calculations

AgentSpec == Init /\ [][AgentNext]_vars

\* ---------- src/backend/roi_calc.py: instances, callers' dicts, module function
\* strategies the callers build and pass: two that sum to 1.0, one that sums to 0.8
CallerStrategies ==
    ConcStrategies \cup {Dict3(Rat(70, 100), Rat(20, 100), Rat(10, 100))}

\* what the module-level function is called with
ModuleBudgets == {0, 10000}

ModuleChannelLists ==
    {<<>>, <<"linkedin_ads", "unknown_channel">>,
     <<"linkedin_ads", "content_marketing", "email_marketing">>}

\* mutant: the calculator keeps the caller's dict itself
Inst_set_allocation_strategy_aliased(objects, ref, strategy_ref) ==
    IF RoiCalc_set_allocation_strategy(objects[strategy_ref]).outcome = "ok"
    THEN [heap |-> objects, self_strategy |-> strategy_ref]
    ELSE [heap |-> objects, self_strategy |-> ref]

\* lines 95-99: on a valid strategy the calculator binds a copy of the dict
Inst_set_allocation_strategy(objects, ref, strategy_ref) ==
    IF RoiCalc_set_allocation_strategy(objects[strategy_ref]).outcome = "ok"
    THEN Conc_set_assign(objects, ref, objects[strategy_ref])
    ELSE [heap |-> objects, self_strategy |-> ref]

\* lines 171-172: a new calculator, whose strategy is a copy of the class table
Module_optimize_budget_allocation(objects, total_budget, channels) ==
    RoiCalc_optimize_budget_allocation(objects[ClassTable], RInt(total_budget), channels, EmptyDict)

\* the caller builds a dict and passes it to set_allocation_strategy
Call_Inst_set_allocation_strategy ==
    /\ Len(heap) < InitialObjects + 2 * MaxSets
    /\ \E strategy \in CallerStrategies :
         /\ heap' = Inst_set_allocation_strategy(Append(heap, strategy), self_strategy, Len(heap) + 1).heap
         /\ self_strategy' = Inst_set_allocation_strategy(Append(heap, strategy), self_strategy, Len(heap) + 1).self_strategy
         /\ installed' = IF RoiCalc_set_allocation_strategy(strategy).outcome = "ok"
                         THEN strategy ELSE installed
    /\ passed' = Len(heap) + 1
    /\ UNCHANGED <<other_strategy, module_plan, optimizer, setter, seq_vars, agent_vars>>

\* the caller later writes an entry of the dict it passed
Caller_changes_dict ==
    /\ passed # NoObject
    /\ heap[passed]["linkedin_ads"] # Rat(90, 100)
    /\ heap' = [heap EXCEPT ![passed]["linkedin_ads"] = Rat(90, 100)]
    /\ UNCHANGED <<self_strategy, other_strategy, passed, installed, module_plan, optimizer, setter, seq_vars, agent_vars>>

\* lines 155-172: the module-level function
Call_Module_optimize_budget_allocation ==
    /\ \E total_budget \in ModuleBudgets, channels \in ModuleChannelLists :
         module_plan' = [total_budget |-> total_budget, channels |-> channels,
                         result |-> Module_optimize_budget_allocation(heap, total_budget, channels)]
    /\ UNCHANGED <<heap, self_strategy, other_strategy, passed, installed, optimizer, setter, seq_vars, agent_vars>>

InstNext ==
    \/ Call_Inst_set_allocation_strategy
    \/ Caller_changes_dict
    \/ Call_Module_optimize_budget_allocation

InstSpec == Init /\ [][InstNext]_vars

\* ============================================================== properties
IsOptimize == call.op = "optimize_budget_allocation"
IsCalculate == call.op = "calculate_campaign_roi"
IsProject == call.op = "project_growth_trajectory"

\* the benchmark table a variant resolves channel ids in (for the weight-table
\* allocator: the weight table in force for the call)
KnownChannels(impl) ==
    CASE impl = "Pkg" -> DOMAIN CHANNEL_METRICS
      [] impl = "Backend" -> DOMAIN CHANNEL_BENCHMARKS
      [] impl = "Root" -> DOMAIN channel_metrics
      [] impl = "RoiCalc" ->
           IF call.custom_weights # EmptyDict
           THEN DOMAIN call.custom_weights ELSE DOMAIN allocation_strategy
      [] OTHER -> {}

\* channel -> absolute budget of the returned plan
PlanBudgets ==
    IF call.impl = "RoiCalc" THEN plan
    ELSE [c \in DOMAIN plan.optimized_allocation |-> plan.optimized_allocation[c].budget]

Distinct(s) == \A i, j \in 1..Len(s) : i # j => s[i] # s[j]

\* C1: for every total_budget > 0 and every non-empty candidate list, the
\* budgets of the plan returned by optimize_budget_allocation sum to
\* total_budget within 0.01.
C1_Conservation ==
    (/\ IsOptimize
     /\ call.impl \in {"RoiCalc", "Backend"}
     /\ call.budget > 0
     /\ call.channels # <<>>
     /\ outcome = "ok")
    => RLe(RAbs(RSub(RSumFun(PlanBudgets, DOMAIN PlanBudgets), RInt(call.budget))),
           Rat(1, 100))

\* the candidates in rank order: by probe ROI in the ranked allocator, by
\* table weight in the weight-table allocator
RankedCandidates ==
    IF call.impl = "Backend" THEN plan.ranking
    ELSE SortedDesc(DictKeys(call.channels), allocation_strategy)

\* C2: with budget 10000, three candidates and no constraints, the channels
\* ranked first, second and third receive 6000, 3000 and 1000 (within 0.1).
C2_TieredExactness ==
    (/\ IsOptimize
     /\ call.impl \in {"RoiCalc", "Backend"}
     /\ call.impl = "RoiCalc" => allocation_strategy = DEFAULT_ALLOCATIONS
     /\ call.budget = 10000
     /\ call.custom_weights = EmptyDict
     /\ Len(call.channels) = 3
     /\ Distinct(call.channels)
     /\ Range(call.channels) \subseteq KnownChannels(call.impl))
    => /\ outcome = "ok"
       /\ Len(RankedCandidates) = 3
       /\ RLe(RAbs(RSub(PlanBudgets[RankedCandidates[1]], RInt(6000))), Rat(1, 10))
       /\ RLe(RAbs(RSub(PlanBudgets[RankedCandidates[2]], RInt(3000))), Rat(1, 10))
       /\ RLe(RAbs(RSub(PlanBudgets[RankedCandidates[3]], RInt(1000))), Rat(1, 10))

\* C3: for every X > 0 and every known channel A, optimize(X, [A]) completes
\* without error and its plan has the single entry A with budget X.
C3_SingleChannel ==
    (/\ IsOptimize
     /\ call.impl \in {"Backend", "Root"}
     /\ call.budget > 0
     /\ Len(call.channels) = 1
     /\ call.channels[1] \in KnownChannels(call.impl))
    => /\ outcome = "ok"
       /\ DOMAIN PlanBudgets = {call.channels[1]}
       /\ PlanBudgets[call.channels[1]] = RInt(call.budget)

\* C4: optimize_budget_allocation fails with an unknown-channel error whenever
\* a candidate is not in the benchmark table: the channel is never dropped,
\* given a zero budget or given a default share.
C4_UnknownChannelRejected ==
    (/\ IsOptimize
     /\ call.budget > 0
     /\ ~(Range(call.channels) \subseteq KnownChannels(call.impl)))
    => /\ outcome = "ValueError"
       /\ error.named \cap (Range(call.channels) \ KnownChannels(call.impl)) # {}
       /\ plan = NoValue

\* C5: calculate_campaign_roi on a channel id outside the benchmark table
\* raises an error whose message names the id and lists the valid ids, and
\* returns no result.
C5_UnknownChannelMessage ==
    (/\ IsCalculate
     /\ call.channel \notin KnownChannels(call.impl))
    => /\ outcome = "ValueError"
       /\ call.channel \in error.named
       /\ error.listed = KnownChannels(call.impl)
       /\ roi = NoValue

\* C6: optimize_budget_allocation raises an invalid-budget error and returns
\* no plan whenever total_budget <= 0 or the candidate list is empty.
C6_InvalidBudgetRejected ==
    (/\ IsOptimize
     /\ (call.budget <= 0 \/ call.channels = <<>>))
    => /\ outcome = "ValueError"
       /\ error.msg \in {"Total budget must be positive",
                         "At least one channel must be specified"}
       /\ plan = NoValue

\* C7: calculate_campaign_roi raises an invalid-budget error for every
\* budget <= 0: it neither returns a result nor divides by zero.
C7_NonPositiveBudgetRejected ==
    (/\ IsCalculate
     /\ call.impl \in {"Pkg", "Backend"}
     /\ call.channel \in KnownChannels(call.impl)
     /\ call.impl = "Backend" => call.duration_months >= 1
     /\ call.budget <= 0)
    => /\ outcome = "ValueError"
       /\ roi = NoValue

ResultAt(impl, channel, budget, duration_months) ==
    CASE impl = "Pkg" -> Pkg_calculate_campaign_roi(channel, RInt(budget))
      [] impl = "Backend" ->
           Backend_calculate_campaign_roi(channel, RInt(budget), duration_months)
      [] impl = "Root" ->
           Root_calculate_campaign_roi(channel, RInt(budget), duration_months)

CustomersOf(impl, r) ==
    CASE impl = "Pkg" -> r.customers
      [] impl = "Backend" -> r.customers_acquired
      [] impl = "Root" -> r.total_customers

RevenueOf(impl, r) == IF impl = "Pkg" THEN r.revenue ELSE r.total_revenue

\* C9: for a fixed channel and duration and budgets b1 <= b2, the customers
\* and the revenue returned for b1 are at most those returned for b2.
C9_BudgetMonotone ==
    (IsCalculate /\ outcome = "ok")
    => \A b1 \in Budgets :
         LET r1 == ResultAt(call.impl, call.channel, b1, call.duration_months)
         IN  (b1 <= call.budget /\ r1.outcome = "ok")
             => /\ CustomersOf(call.impl, r1.value) <= CustomersOf(call.impl, roi)
                /\ RLe(RevenueOf(call.impl, r1.value), RevenueOf(call.impl, roi))

\* a call whose customers and revenue strictly exceed those of a smaller budget
C9_Witness ==
    /\ IsCalculate
    /\ outcome = "ok"
    /\ call.impl = "Backend"
    /\ call.channel = "google_ads"
    /\ call.budget = 5000
    /\ \E b1 \in Budgets :
         LET r1 == ResultAt(call.impl, call.channel, b1, call.duration_months)
         IN  /\ b1 < call.budget
             /\ r1.outcome = "ok"
             /\ r1.value.customers_acquired < roi.customers_acquired
             /\ RLt(r1.value.total_revenue, roi.total_revenue)

CumulativeInvestment(bd, i) ==
    IF call.impl = "Backend" THEN bd[i].cumulative_investment
    ELSE RSumSeq([j \in 1..i |-> bd[j].spend])

\* month i of the breakdown has cumulative revenue >= cumulative investment
BreaksEven(bd, i) == RLe(CumulativeInvestment(bd, i), bd[i].cumulative_revenue)

\* C11: the break-even milestone of project_growth_trajectory is the first
\* month whose cumulative revenue >= cumulative investment: if some month
\* (in particular the final one) passes the test, the milestone is a month
\* <= the final month that passes it and no earlier month does; if no month
\* passes it, the milestone is not a month of the projection.
C11_BreakEvenFirstMonth ==
    (IsProject /\ outcome = "ok")
    => LET bd == projection.monthly_breakdown
           be == projection.break_even_month
       IN  IF \E i \in 1..Len(bd) : BreaksEven(bd, i)
           THEN /\ be \in 1..Len(bd)
                /\ bd[be].month = be
                /\ BreaksEven(bd, be)
                /\ \A j \in 1..(be - 1) : ~BreaksEven(bd, j)
           ELSE be \notin 1..Len(bd)

\* a projection whose first month stays below break-even and whose final month
\* reaches it
C11_Witness ==
    /\ IsProject
    /\ outcome = "ok"
    /\ call.impl = "Root"
    /\ call.budget = 500000
    /\ Len(projection.monthly_breakdown) = 2
    /\ ~BreaksEven(projection.monthly_breakdown, 1)
    /\ BreaksEven(projection.monthly_breakdown, 2)
    /\ projection.break_even_month = 2

\* the reported value of a milestone, kept when no month reaches the milestone
IfUnreached(reached, value) == IF reached THEN {} ELSE {value}

\* the values reported for the milestones that no month of the returned
\* breakdown reaches
UnreachedMilestones ==
    LET bd == projection.monthly_breakdown
        months == 1..Len(bd)
        customers(n) == \E i \in months : bd[i].cumulative_customers >= n
        break_even == \E i \in months : BreaksEven(bd, i)
    IN  IF call.impl = "Backend"
        THEN IfUnreached(customers(10), projection.first_10_customers)
             \cup IfUnreached(customers(50), projection.first_50_customers)
             \cup IfUnreached(customers(100), projection.first_100_customers)
             \cup IfUnreached(break_even, projection.break_even_month)
        ELSE IfUnreached(customers(100), projection.months_to_100_customers)
             \cup IfUnreached(\E i \in months : RLe(RInt(call.budget), bd[i].mrr),
                              projection.profitable_mrr_month)
             \cup IfUnreached(break_even, projection.break_even_month)

\* C12: a milestone (break-even, N customers, target MRR) that no month of the
\* projection reaches is reported with a dedicated not-reached value, never
\* as month 0 or as a negative number.
C12_NotReachedSentinel ==
    (IsProject /\ outcome = "ok" /\ call.budget > 0)
    => \A v \in UnreachedMilestones : ~(v \in Int /\ v <= 0)

\* realized percentage of total_budget a plan gives to channel c
RealizedPct(c) == RMul(RDiv(PlanBudgets[c], RInt(call.budget)), RInt(100))

\* a constraint map can be satisfied: no min above its max, and the minimums
\* together within the whole budget
Feasible(constraints) ==
    /\ \A c \in DOMAIN constraints : constraints[c].min_pct <= constraints[c].max_pct
    /\ RLe(RSumFun([c \in DOMAIN constraints |-> RInt(constraints[c].min_pct)],
                   DOMAIN constraints),
           RInt(100))

\* C13: given a feasible map channel -> (min_pct, max_pct), optimize returns a
\* plan in which every constrained channel's realized percentage of
\* total_budget lies within [min_pct, max_pct] (within 0.1).
C13_ConstraintSatisfaction ==
    (/\ IsOptimize
     /\ call.impl = "Backend"
     /\ call.constraints # NoConstraints
     /\ Feasible(call.constraints)
     /\ call.budget > 0
     /\ Distinct(call.channels)
     /\ DOMAIN call.constraints \subseteq Range(call.channels)
     /\ Range(call.channels) \subseteq KnownChannels(call.impl))
    => /\ outcome = "ok"
       /\ \A c \in DOMAIN call.constraints :
            /\ c \in DOMAIN PlanBudgets
            /\ RLe(RSub(RInt(call.constraints[c].min_pct), Rat(1, 10)), RealizedPct(c))
            /\ RLe(RealizedPct(c), RAdd(RInt(call.constraints[c].max_pct), Rat(1, 10)))

\* C14: optimize raises an infeasible-constraint error and returns no plan
\* when some min_pct > max_pct or the minimums together exceed total_budget.
C14_InfeasibleConstraintRejected ==
    (/\ IsOptimize
     /\ call.impl = "RoiCalc"
     /\ call.constraints # NoConstraints
     /\ ~Feasible(call.constraints)
     /\ call.budget > 0
     /\ call.channels # <<>>)
    => /\ outcome \in {"InfeasibleConstraintError", "ValueError"}
       /\ plan = NoValue

\* the shares of a mix sum to 1 within 0.01
MixSumsToOne(mix) ==
    RLe(RAbs(RSub(RSumFun(mix, DOMAIN mix), RInt(1))), Rat(1, 100))

\* C15: project_growth_trajectory accepts an optional channel_mix: without
\* it the projection uses the fixed reference allocation, with a mix summing
\* to 1 (within 0.01) it uses that mix, and with any other mix it fails with
\* a validation error and produces no projection.
C15_ChannelMixValidated ==
    (/\ IsProject
     /\ call.impl = "Backend"
     /\ call.budget > 0
     /\ call.duration_months >= 1)
    => IF call.channel_mix = NoMix
       THEN /\ outcome = "ok"
            /\ projection.channel_allocation = Backend_channel_allocation
       ELSE IF MixSumsToOne(call.channel_mix)
       THEN /\ outcome = "ok"
            /\ projection.channel_allocation = call.channel_mix
       ELSE /\ outcome \in {"InvalidMixError", "ValueError"}
            /\ projection = NoValue

\* the caller has made the same call twice in a row
Repeated == ~Idle /\ previous # NoPrevious

\* C16: for fixed inputs, two calls of calculate_campaign_roi, of
\* optimize_budget_allocation or of project_growth_trajectory return identical
\* outputs: the second call answers exactly what the first one did, whatever
\* the wall clock reads.
C16_Deterministic ==
    (/\ Repeated
     /\ call.op \in {"calculate_campaign_roi", "optimize_budget_allocation",
                     "project_growth_trajectory"})
    => Answer = previous

\* C17: with exactly two candidate channels and no constraints,
\* optimize_budget_allocation gives 70% of total_budget to the higher-ranked
\* channel and 30% to the lower-ranked one.
C17_TwoChannelSplit ==
    (/\ IsOptimize
     /\ call.impl \in {"RoiCalc", "Backend"}
     /\ call.impl = "RoiCalc" => allocation_strategy = DEFAULT_ALLOCATIONS
     /\ call.budget > 0
     /\ call.custom_weights = EmptyDict
     /\ call.constraints = NoConstraints
     /\ Len(call.channels) = 2
     /\ Distinct(call.channels)
     /\ Range(call.channels) \subseteq KnownChannels(call.impl))
    => /\ outcome = "ok"
       /\ PlanBudgets[RankedCandidates[1]] = RMul(RInt(call.budget), Rat(70, 100))
       /\ PlanBudgets[RankedCandidates[2]] = RMul(RInt(call.budget), Rat(30, 100))

\* one fixed order of the channel ids
ChannelOrder ==
    <<"content_marketing", "email_marketing", "google_ads", "linkedin_ads", "seo",
      "unknown_channel">>

\* the entries of the list s, arranged in the order of their ids in order
RECURSIVE Arranged(_, _)
Arranged(s, order) ==
    IF order = <<>> THEN <<>>
    ELSE SelectSeq(s, LAMBDA c : c = Head(order)) \o Arranged(s, Tail(order))

\* what the allocator of the last call answers for the channels in another order
OptimizeWith(channels) ==
    IF call.impl = "RoiCalc"
    THEN RoiCalc_optimize_budget_allocation(allocation_strategy, RInt(call.budget),
                                            channels, call.custom_weights)
    ELSE Backend_optimize_budget_allocation(RInt(call.budget), channels)

\* channel -> budget of the plan in the answer r
BudgetsOf(r) ==
    IF call.impl = "RoiCalc" THEN r.value
    ELSE [c \in DOMAIN r.value.optimized_allocation |->
            r.value.optimized_allocation[c].budget]

\* the answer r is the answer the last call got, budget for budget
SameBudgets(r) ==
    /\ r.outcome = outcome
    /\ outcome = "ok" => BudgetsOf(r) = PlanBudgets

\* C18: the plan of optimize_budget_allocation does not depend on the order
\* of the channels argument: every channel list gets, channel for channel,
\* the budgets of the same entries arranged in one fixed order, so all the
\* permutations of a list (each of them a call of its own) get the same
\* budgets.
C18_OrderIndependent ==
    (/\ IsOptimize
     /\ call.impl \in {"RoiCalc", "Backend"}
     /\ call.constraints = NoConstraints)
    => SameBudgets(OptimizeWith(Arranged(call.channels, ChannelOrder)))

\* the ranked allocator was handed two channels in the reverse of their rank
C18_Witness ==
    /\ IsOptimize
    /\ call.impl = "Backend"
    /\ call.constraints = NoConstraints
    /\ call.budget = 10000
    /\ call.channels = <<"linkedin_ads", "content_marketing">>
    /\ outcome = "ok"
    /\ plan.ranking = <<"content_marketing", "linkedin_ads">>
    /\ PlanBudgets["content_marketing"] = RInt(6250)
    /\ PlanBudgets["linkedin_ads"] = RInt(3750)

\* the weight table in force for the last call of the weight-table allocator
ActiveWeights ==
    IF call.custom_weights # EmptyDict THEN call.custom_weights ELSE allocation_strategy

\* w(c): the weight of channel c in the active table, 0 when absent
WeightOf(c) == IF HasKey(ActiveWeights, c) THEN ActiveWeights[c] ELSE Zero

\* W: the sum of w over the requested channels
RequestedWeight ==
    RSumSeq([i \in 1..Len(call.channels) |-> WeightOf(call.channels[i])])

\* every requested channel has total_budget * w(c) / W, or the equal share
\* when W = 0
WeightedShares ==
    \A c \in Range(call.channels) :
        plan[c] = IF RequestedWeight = Zero
                  THEN RDiv(RInt(call.budget), RInt(Len(call.channels)))
                  ELSE RDiv(RMul(RInt(call.budget), WeightOf(c)), RequestedWeight)

SumsToOne(strategy) ==
    /\ RLe(Rat(99, 100), RSumFun(strategy, DOMAIN strategy))
    /\ RLe(RSumFun(strategy, DOMAIN strategy), Rat(101, 100))

\* a step that is a call of set_allocation_strategy
SetStrategyStep == call'.op = "set_allocation_strategy"

\* the last call was one of the weight-table allocator without custom_weights
UsedDefaultWeights ==
    /\ call.impl = "RoiCalc"
    /\ call.op = "optimize_budget_allocation"
    /\ call.custom_weights = EmptyDict
    /\ outcome = "ok"

\* C20: set_allocation_strategy raises ValueError when the percentages sum
\* outside [0.99, 1.01] and then leaves the active strategy unchanged; when
\* the sum is inside, it installs the strategy; and a later
\* optimize_budget_allocation without custom_weights leaves the active
\* strategy as it is and allocates by its weights.
C20_StrategyValidated ==
    [][/\ SetStrategyStep =>
            IF SumsToOne(call'.strategy)
            THEN outcome' = "ok" /\ allocation_strategy' = call'.strategy
            ELSE outcome' = "ValueError" /\ allocation_strategy' = allocation_strategy
       /\ UsedDefaultWeights' => allocation_strategy' = allocation_strategy
       /\ UsedDefaultWeights => WeightedShares]_vars

\* a strategy summing to 0.8 was rejected after another one had been installed
C20_Witness ==
    /\ call.op = "set_allocation_strategy"
    /\ ~SumsToOne(call.strategy)
    /\ outcome = "ValueError"
    /\ allocation_strategy = Dict3(Rat(50, 100), Rat(30, 100), Rat(20, 100))

\* C21: whenever calculate_campaign_roi reports customers_acquired = 0, the
\* reported ltv_cac_ratio is 0, for every known channel, budget > 0 and
\* duration >= 1.
C21_ZeroCustomersZeroRatio ==
    (/\ IsCalculate
     /\ call.impl = "Backend"
     /\ outcome = "ok"
     /\ call.budget > 0
     /\ call.duration_months >= 1
     /\ roi.customers_acquired = 0)
    => roi.ltv_cac_ratio = Zero

\* C22: an optimize_budget_allocation call that overlaps set_allocation_strategy
\* calls on the same calculator computes its whole plan from one table, one
\* of those the calculator had during the call: never from a mix of two.
C22_OneTablePerPlan ==
    (optimizer.pc = "done" /\ optimizer.outcome = "ok")
    => \E table \in optimizer.tables :
          optimizer.result =
             RoiCalc_optimize_budget_allocation(
                 table, RInt(optimizer.total_budget), optimizer.channels,
                 EmptyDict).value

\* a strategy was installed while the plan was being computed, and the plan is
\* the one of the weights the call started with
C22_Witness ==
    /\ optimizer.pc = "done"
    /\ optimizer.outcome = "ok"
    /\ optimizer.channels = <<"linkedin_ads", "email_marketing">>
    /\ Cardinality(optimizer.tables) = 2
    /\ heap[self_strategy] = Dict3(Rat(50, 100), Rat(30, 100), Rat(20, 100))
    /\ optimizer.result =
          RoiCalc_optimize_budget_allocation(
              DEFAULT_ALLOCATIONS, RInt(10000), optimizer.channels, EmptyDict).value

\* C23: no engine operation changes a field of its calculator: a
\* calculate_campaign_roi call of the agent calculator leaves the recorded
\* analyses, and every other field, as they were.
C23_NoStateChange ==
    [][agent_call' = "calculate_campaign_roi"
         => /\ calculations' = calculations
            /\ allocation_strategy' = allocation_strategy]_vars

\* C24: calculate_campaign_roi floors the customer count before it is used, so
\* the reported revenue is the reported integer customer count times the
\* average customer value, for every budget above 0.
C24_RevenueFromWholeCustomers ==
    (IsCalculate /\ call.impl = "Backend" /\ outcome = "ok" /\ call.budget > 0)
    => roi.total_revenue =
          RMul(RInt(roi.customers_acquired),
               CHANNEL_BENCHMARKS[call.channel].avg_customer_value)

\* C25: when calculate_campaign_roi reports zero customers, cost_per_customer
\* is the budget itself; otherwise it is the budget divided by the customers
\* reported (budget above 0).
C25_CostPerCustomerSentinel ==
    (/\ IsCalculate /\ call.impl \in {"Backend", "Root"} /\ outcome = "ok"
     /\ call.budget > 0 /\ CustomersOf(call.impl, roi) >= 0)
    => roi.cost_per_customer =
          IF CustomersOf(call.impl, roi) = 0
          THEN RInt(call.budget)
          ELSE Rat(call.budget, CustomersOf(call.impl, roi))

\* customers a month wins through its channels, before any viral term
OrganicCustomers(m) ==
    IF call.impl = "Backend"
    THEN Backend_month_organic(RInt(call.budget))
    ELSE RSumFun([c \in DOMAIN Root_channel_allocation |->
                    RInt(Root_month_results(RInt(call.budget), call.duration_months,
                                            m)[c].total_customers)],
                 DOMAIN Root_channel_allocation)

\* the cumulative customers through month m of a breakdown, unrounded: the
\* backend reports mrr = cumulative customers * MONTHLY_SUBSCRIPTION_VALUE
CumulativeThrough(bd, m) ==
    IF m = 0 THEN Zero
    ELSE IF call.impl = "Backend"
    THEN RDiv(bd[m].mrr, RInt(MONTHLY_SUBSCRIPTION_VALUE))
    ELSE RInt(bd[m].cumulative_customers)

\* C26: the months of project_growth_trajectory come in order and the customers
\* of month m are its channels' customers plus 0.05 times the cumulative
\* customers through month m-1; in month 1 the viral term is 0.
C26_ViralFromEarlierMonths ==
    (IsProject /\ outcome = "ok" /\ call.budget > 0)
    => LET bd == projection.monthly_breakdown
       IN  \A m \in 1..Len(bd) :
             /\ bd[m].month = m
             /\ bd[m].customers =
                   PyInt(RAdd(OrganicCustomers(m),
                              RMul(Rat(5, 100), CumulativeThrough(bd, m - 1))))

\* the score a ranked allocator gives a known channel: the probe's ROI in
\* src/backend/roi_calculator.py, the efficiency score in src/roi_calculator.py
ScoreOf(c) ==
    IF call.impl = "Backend"
    THEN Backend_calculate_campaign_roi(c, RInt(ROI_TEST_BUDGET), ROI_TEST_DURATION).value.roi_percentage
    ELSE Root_efficiency_score(c)

\* the candidates of the call by descending score
ByScore == SortedDesc(call.channels, [c \in Range(call.channels) |-> ScoreOf(c)])

\* score_i * 0.7^i of the candidate at 0-based rank i
DecayWeight(ranked, i) == RMul(ScoreOf(ranked[i + 1]), RPow(Rat(7, 10), i))

DecayTotal(ranked) == RSumSeq([k \in 1..Len(ranked) |-> DecayWeight(ranked, k - 1)])

\* C27: with four or more distinct known candidates and no constraints, every
\* candidate is in the plan with a positive budget, and the candidate at
\* 0-based rank i by descending score gets the share score_i * 0.7^i of the
\* budget, the shares normalized to sum to 1.
C27_ExponentialDecay ==
    (/\ IsOptimize
     /\ call.impl \in {"Backend", "Root"}
     /\ call.budget > 0
     /\ call.constraints = NoConstraints
     /\ Len(call.channels) >= 4
     /\ Distinct(call.channels)
     /\ Range(call.channels) \subseteq KnownChannels(call.impl))
    => /\ outcome = "ok"
       /\ DOMAIN PlanBudgets = Range(call.channels)
       /\ \A c \in Range(call.channels) : RLt(Zero, PlanBudgets[c])
       /\ \A i \in 0..(Len(ByScore) - 1) :
             RDiv(PlanBudgets[ByScore[i + 1]], RInt(call.budget)) =
                RDiv(DecayWeight(ByScore, i), DecayTotal(ByScore))

\* C28: when the channels list of the weight-table allocator names a channel
\* of its table more than once, the plan has one entry per distinct channel
\* and its budgets sum to total_budget.
C28_DuplicatesConserved ==
    (/\ IsOptimize
     /\ call.impl = "RoiCalc"
     /\ outcome = "ok"
     /\ call.custom_weights = EmptyDict
     /\ ~Distinct(call.channels)
     /\ Range(call.channels) \subseteq KnownChannels("RoiCalc"))
    => /\ DOMAIN plan = Range(call.channels)
       /\ RSumFun(plan, DOMAIN plan) = RInt(call.budget)

\* C29: for every total_budget > 0 and every list of channels, the
\* performance-based allocator gives each channel at least 5% of total_budget
\* and its allocations sum to total_budget, whatever the historical ROI values.
C29_FloorAndConservation ==
    (/\ IsOptimize
     /\ call.impl = "Agent"
     /\ outcome = "ok"
     /\ call.budget > 0
     /\ call.channels # <<>>
     /\ call.historical_performance # None)
    => /\ DOMAIN plan.recommended_allocation = Range(call.channels)
       /\ \A c \in Range(call.channels) :
             RLe(RMul(RInt(call.budget), Rat(5, 100)), plan.recommended_allocation[c])
       /\ RSumFun(plan.recommended_allocation, DOMAIN plan.recommended_allocation)
             = RInt(call.budget)

\* C30: the strategy of a calculator is private to it: after any
\* set_allocation_strategy calls the class table DEFAULT_ALLOCATIONS and the
\* strategy of another instance are unchanged, the strategy stays what was set
\* when the caller later changes the dict it passed, and the module-level
\* optimize_budget_allocation allocates by the default 60/30/10 weights.
C30_StrategyPrivate ==
    /\ heap[ClassTable] = Dict3(Rat(60, 100), Rat(30, 100), Rat(10, 100))
    /\ heap[other_strategy] = Dict3(Rat(60, 100), Rat(30, 100), Rat(10, 100))
    /\ other_strategy # self_strategy
    /\ installed # NoValue => heap[self_strategy] = installed
    /\ installed = NoValue => heap[self_strategy] = Dict3(Rat(60, 100), Rat(30, 100), Rat(10, 100))
    /\ (/\ module_plan # NoValue
        /\ module_plan.total_budget = 10000
        /\ module_plan.channels = <<"linkedin_ads", "content_marketing", "email_marketing">>)
       => module_plan.result.value = Dict3(RInt(6000), RInt(3000), RInt(1000))

\* a strategy was set, the caller then changed its dict, and the module-level
\* function was called with the three default channels
C30_Witness ==
    /\ installed = Dict3(Rat(50, 100), Rat(30, 100), Rat(20, 100))
    /\ passed # NoObject
    /\ heap[passed] = Dict3(Rat(90, 100), Rat(30, 100), Rat(20, 100))
    /\ heap[self_strategy] = installed
    /\ module_plan # NoValue
    /\ module_plan.total_budget = 10000
    /\ module_plan.channels = <<"linkedin_ads", "content_marketing", "email_marketing">>

====
